---- MODULE Spec2Model ----
(***************************************************************************)
(* A model of the table-resolution engine of sentinel-solutions-mcp:       *)
(*   - the KQL scanner            (src/src/loaders/kqlParser.ts)           *)
(*   - the table/parser classifier and the connector table extractor       *)
(*                                (src/src/loaders/tableExtractor.ts)      *)
(*   - the parser catalog and the parser resolver (parserResolver.ts)      *)
(*   - the orchestrator           (solutionLoader.ts)                      *)
(*                                                                         *)
(* Conventions.  A JavaScript string is a TLA+ string; TLC evaluates Len,  *)
(* \o and SubSeq on strings, so the text functions work character by       *)
(* character.  A JavaScript Set<string> or Map<string,_> is a sequence     *)
(* without duplicates, in insertion order (the order the code iterates     *)
(* it in).  A JSON value is a tagged record (JStr, JObj, JArr, JOther).    *)
(***************************************************************************)
EXTENDS Integers, Sequences, FiniteSets, TLC

VARIABLES
    (* scanner harness: one extractTablesFromQuery call *)
    query,          \* the query text handed to the scanner
    scanned,        \* the returned Set<string>, in insertion order
    sphase,         \* "input" before the call, "scanned" after it
    (* classifier harness: one identifier through both isLikelyParser *)
    cname,          \* the identifier
    verdict,        \* what each classifier returned for it
    cphase,         \* "input" before the calls, "classified" after them
    (* ParserResolver: the catalog and one top-level resolveParser call *)
    parserCache,    \* Map<string, ParserInfo>: name -> ParserInfo
    startName,      \* the parserName of the top-level call
    visited,        \* the visited set the nested calls share
    rstack,         \* the frames of the nested resolveParser calls, outermost first
    rresult,        \* the set the top-level call returned
    rstatus,        \* "running", "done" (returned) or "error" (threw)
    expansions,     \* history: the calls that got past both early returns
    cutoffs,        \* history: the calls that returned the empty set early
    (* extractor harness: one extractTablesFromConnector call *)
    connector,      \* the parsed connector document
    extraction,     \* the ExtractionResult (or that the call threw)
    ephase,         \* "input" before the call, "extracted" after it
    priority,       \* what resolveTablePriority returned for the tables
    (* SolutionLoader: one analyze() run over a repository *)
    repo,           \* the repository: its tree and the content of its files
    mappings,       \* this.mappings
    issues,         \* this.issues
    tableOccurrences, \* this.tableOccurrences: <<tableName, count>> pairs
    apc,            \* where the run is, with the locals of analyze/analyzeSolution
    analysed,       \* history: per analysed connector, what was extracted and resolved
    (* a second analyze() run on the same SolutionLoader *)
    apc2,           \* where the second run is, with its locals
    parserCache2,   \* the parserCache of the second run's ParserResolver
    (* callers' tasks that run side by side on one ParserResolver *)
    tasks,          \* per task: its locals and the frames of its calls
    (* tools/index.ts: the analysis cache of the tool layer *)
    cachedAnalysisResult, \* the module's cachedAnalysisResult
    cacheCommitHash,      \* the module's cacheCommitHash
    preBuiltIndex,        \* what loadPreBuiltIndex() returns
    calls           \* history: the tool calls made, each with where it is

scanVars == <<query, scanned, sphase>>
classVars == <<cname, verdict, cphase>>
resolveVars == <<parserCache, startName, visited, rstack, rresult, rstatus,
                 expansions, cutoffs>>
extractVars == <<connector, extraction, ephase, priority>>
loaderVars == <<repo, mappings, issues, tableOccurrences, apc, analysed>>
secondRun == <<apc2, parserCache2>>
toolVars == <<cachedAnalysisResult, cacheCommitHash, preBuiltIndex, calls>>

vars == <<query, scanned, sphase, cname, verdict, cphase,
          parserCache, startName, visited, rstack, rresult, rstatus,
          expansions, cutoffs, connector, extraction, ephase, priority,
          repo, mappings, issues, tableOccurrences, apc, analysed,
          apc2, parserCache2, tasks,
          cachedAnalysisResult, cacheCommitHash, preBuiltIndex, calls>>

-----------------------------------------------------------------------------
(* Generic helpers                                                          *)

Range(s) == {s[i] : i \in 1..Len(s)}

MinOf(S) == CHOOSE i \in S : \A j \in S : i <= j

\* Set.prototype.add on an insertion-ordered set
SetAdd(s, x) == IF x \in Range(s) THEN s ELSE Append(s, x)

RECURSIVE SetAddAll(_, _)
SetAddAll(s, xs) ==
    IF xs = <<>> THEN s ELSE SetAddAll(SetAdd(s, Head(xs)), Tail(xs))

-----------------------------------------------------------------------------
(* JavaScript string primitives                                             *)

CharAt(s, i) == SubSeq(s, i, i)

\* s.startsWith(p, i-1), 1-based
StartsWithAt(s, i, p) ==
    /\ i >= 1
    /\ i + Len(p) - 1 <= Len(s)
    /\ SubSeq(s, i, i + Len(p) - 1) = p

StartsWith(s, p) == StartsWithAt(s, 1, p)

EndsWith(s, p) == StartsWithAt(s, Len(s) - Len(p) + 1, p)

\* s.indexOf(p), 1-based; 0 when p does not occur (JavaScript's -1)
IndexOfFrom(s, p, from) ==
    LET hits == {i \in from..Len(s) : StartsWithAt(s, i, p)}
    IN  IF hits = {} THEN 0 ELSE MinOf(hits)

IndexOf(s, p) == IndexOfFrom(s, p, 1)

Includes(s, p) == IndexOf(s, p) # 0

UpperChars == "ABCDEFGHIJKLMNOPQRSTUVWXYZ"
LowerChars == "abcdefghijklmnopqrstuvwxyz"
DigitChars == "0123456789"

CharsOf(s) == {CharAt(s, i) : i \in 1..Len(s)}

UpperSet == CharsOf(UpperChars)
LetterSet == CharsOf(UpperChars) \cup CharsOf(LowerChars)
DigitSet == CharsOf(DigitChars)

\* \w of a JavaScript regular expression
WordCharSet == LetterSet \cup DigitSet \cup {"_"}

\* \s of a JavaScript regular expression (the ASCII part)
WhitespaceSet == {" ", "\t", "\n", "\r", "\f"}

LowerOf == [c \in UpperSet |->
              CharAt(LowerChars, CHOOSE i \in 1..Len(UpperChars) : CharAt(UpperChars, i) = c)]

\* s.toLowerCase(), assembled from the two halves of s
RECURSIVE ToLowerCase(_)
ToLowerCase(s) ==
    IF s = "" THEN ""
    ELSE IF Len(s) = 1 THEN (IF s \in UpperSet THEN LowerOf[s] ELSE s)
    ELSE LET half == Len(s) \div 2
         IN  ToLowerCase(SubSeq(s, 1, half))
                \o ToLowerCase(SubSeq(s, half + 1, Len(s)))

\* s.split(sep) for a one-character separator: the pieces, in order
RECURSIVE Split(_, _)
Split(s, sep) ==
    LET i == IndexOf(s, sep)
    IN  IF i = 0 THEN <<s>>
        ELSE <<SubSeq(s, 1, i - 1)>> \o Split(SubSeq(s, i + 1, Len(s)), sep)

\* pieces.join(sep)
RECURSIVE Join(_, _)
Join(pieces, sep) ==
    IF pieces = <<>> THEN ""
    ELSE IF Len(pieces) = 1 THEN pieces[1]
    ELSE pieces[1] \o sep \o Join(Tail(pieces), sep)

\* the first index >= i of s that holds no character of cs (Len(s)+1 at the end)
SkipChars(s, i, cs) ==
    LET stops == {j \in i..Len(s) : CharAt(s, j) \notin cs}
    IN  IF stops = {} THEN (IF i > Len(s) THEN i ELSE Len(s) + 1)
        ELSE MinOf(stops)

-----------------------------------------------------------------------------
(* JSON values                                                              *)

JStr(s) == [t |-> "str", s |-> s]
JOther == [t |-> "other"]              \* a number, a boolean: truthy, no string
JNull == [t |-> "null"]                \* null, or an absent property (undefined)
JObj(entries) == [t |-> "obj", e |-> entries]   \* entries: <<key, value>> pairs
JArr(items) == [t |-> "arr", e |-> items]

\* obj[key] (undefined and null are both JNull)
Get(v, key) ==
    IF v.t # "obj" THEN JNull
    ELSE LET hits == {i \in 1..Len(v.e) : v.e[i][1] = key}
         IN  IF hits = {} THEN JNull
             ELSE v.e[CHOOSE i \in hits : \A j \in hits : i >= j][2]

\* JavaScript truthiness
Truthy(v) == /\ v.t # "null"
             /\ ~(v.t = "str" /\ v.s = "")

-----------------------------------------------------------------------------
(* kqlParser.ts                                                             *)

PIPE_BLOCK_COMMANDS ==
    << "project", "project-away", "project-keep", "project-rename",
       "project-reorder", "extend", "summarize", "distinct", "where", "order",
       "sort", "top", "limit", "take", "sample", "join", "union", "datatable",
       "evaluate", "invoke", "as" >>

NON_TABLE_TOKENS ==
    { "ago", "now", "true", "false", "null", "and", "or", "not", "between",
      "in", "contains", "startswith", "endswith", "has", "let", "print",
      "search" }

\* [A-Za-z0-9_.]
TokenCharSet == WordCharSet \cup {"."}

\* PLURAL_TABLE_CORRECTIONS, an object literal: key -> value
PLURAL_TABLE_CORRECTIONS ==
    << <<"securityevents", "SecurityEvent">>,
       <<"syslog", "Syslog">>,
       <<"syslogs", "Syslog">>,
       <<"commonlogs", "CommonSecurityLog">>,
       <<"commonSecurityLogs", "CommonSecurityLog">>,
       <<"signinlogs", "SigninLogs">>,
       <<"auditlogs", "AuditLogs">> >>

\* The lower-case property names an object literal inherits from
\* Object.prototype: PLURAL_TABLE_CORRECTIONS[key] is then a function or an
\* object, which no later check accepts as a table token.
InheritedKeys == {"constructor", "__proto__"}

\* removeLineComments, one line
StripLine(line) ==
    IF Includes(line, "http://") \/ Includes(line, "https://") THEN line
    ELSE LET commentIndex == IndexOf(line, "//")
         IN  IF commentIndex >= 1 THEN SubSeq(line, 1, commentIndex - 1)
             ELSE line

RemoveLineComments(q) ==
    LET lines == Split(q, "\n")
    IN  Join([i \in 1..Len(lines) |-> StripLine(lines[i])], "\n")

\* The end (exclusive) of a match of  \|\s*<command>\s+[^|]*  (flags gi) that
\* starts at index i of s, or 0 when there is none.
BlockMatchEnd(s, i, command) ==
    IF CharAt(s, i) # "|" THEN 0
    ELSE LET j == SkipChars(s, i + 1, WhitespaceSet)
             k == j + Len(command)
         IN  IF /\ k - 1 <= Len(s)
                /\ ToLowerCase(SubSeq(s, j, k - 1)) = command
                /\ k <= Len(s)
                /\ CharAt(s, k) \in WhitespaceSet
             THEN LET bar == IndexOfFrom(s, "|", k + 1)
                  IN  IF bar = 0 THEN Len(s) + 1 ELSE bar
             ELSE 0

\* result.replace(pattern, '|') for one command, from index i on: the text
\* up to the leftmost match, a pipe for the match, and the same again after it
RECURSIVE ReplaceBlocks(_, _, _)
ReplaceBlocks(s, i, command) ==
    LET starts == {j \in i..Len(s) : BlockMatchEnd(s, j, command) # 0}
    IN  IF starts = {} THEN SubSeq(s, i, Len(s))
        ELSE LET m == MinOf(starts)
             IN  SubSeq(s, i, m - 1) \o "|"
                    \o ReplaceBlocks(s, BlockMatchEnd(s, m, command), command)

\* PIPE_BLOCK_COMMANDS.forEach: one replace per command, each on the result
\* of the one before (an empty text has nothing left to replace)
RECURSIVE StripCommands(_, _)
StripCommands(s, commands) ==
    IF commands = <<>> \/ s = "" THEN s
    ELSE StripCommands(ReplaceBlocks(s, 1, Head(commands)), Tail(commands))

StripPipeCommandBlocks(q) == StripCommands(q, PIPE_BLOCK_COMMANDS)

\* text.matchAll(/[A-Za-z0-9_.]+/g): the maximal runs, in order
RECURSIVE ExtractTokensFrom(_, _)
ExtractTokensFrom(text, i) ==
    LET starts == {j \in i..Len(text) : CharAt(text, j) \in TokenCharSet}
    IN  IF starts = {} THEN <<>>
        ELSE LET b == MinOf(starts)
                 e == SkipChars(text, b, TokenCharSet)
             IN  <<SubSeq(text, b, e - 1)>> \o ExtractTokensFrom(text, e)

ExtractTokens(text) == ExtractTokensFrom(text, 1)

\* An ordered set of every token of every segment: what a scanner that did
\* not stop at the first pipe would collect.
RECURSIVE AllSegmentTokens(_)
AllSegmentTokens(segments) ==
    IF segments = <<>> THEN <<>>
    ELSE SetAddAll(SetAddAll(<<>>, ExtractTokens(Head(segments))),
                   AllSegmentTokens(Tail(segments)))

DetectPipelineHeads_AllSegments(q) == AllSegmentTokens(Split(q, "|"))

DetectPipelineHeads(q) ==
    LET segments == Split(q, "|")
    IN  SetAddAll(<<>>, ExtractTokens(segments[1]))

\* The end (exclusive) of a match of  \[variables\('([^']+)'\)\]  at index i,
\* or 0.
ArmMatchEnd(s, i) ==
    LET open == "[variables('"
        close == "')]"
        n == i + Len(open)
    IN  IF ~StartsWithAt(s, i, open) THEN 0
        ELSE LET quote == IndexOfFrom(s, "'", n)
             IN  IF quote > n /\ StartsWithAt(s, quote, close)
                 THEN quote + Len(close)
                 ELSE 0

\* token.match(ARM_VARIABLE_PATTERN): the pattern is global, so the result is
\* the list of whole matches (no capture groups); <<>> stands for null.
RECURSIVE ArmMatchesFrom(_, _)
ArmMatchesFrom(s, i) ==
    LET starts == {j \in i..Len(s) : ArmMatchEnd(s, j) # 0}
    IN  IF starts = {} THEN <<>>
        ELSE LET b == MinOf(starts)
                 e == ArmMatchEnd(s, b)
             IN  <<SubSeq(s, b, e - 1)>> \o ArmMatchesFrom(s, e)

ArmMatches(token) == ArmMatchesFrom(token, 1)

\* Bindings: Record<string, string> as key -> value pairs, or undefined
NoVariables == [defined |-> FALSE, map |-> <<>>]
Variables(pairs) == [defined |-> TRUE, map |-> pairs]

\* variables[key] || null   ("" stands for null: an empty value is falsy too)
Lookup(pairs, key) ==
    LET hits == {i \in 1..Len(pairs) : pairs[i][1] = key}
    IN  IF hits = {} THEN ""
        ELSE pairs[CHOOSE i \in hits : \A j \in hits : i >= j][2]

\* resolveArmVariable: match[1] is the second whole match
ResolveArmVariable(token, variables) ==
    LET match == ArmMatches(token)
    IN  IF Len(match) >= 2 THEN Lookup(variables.map, match[2]) ELSE ""

\* \s*= at index d of the token
LetEquals(token, d) == StartsWithAt(token, SkipChars(token, d, WhitespaceSet), "=")

\* (\w+)\s*= at index c of the token
LetName(token, c) ==
    /\ SkipChars(token, c, WordCharSet) > c
    /\ LetEquals(token, SkipChars(token, c, WordCharSet))

\* \s+(\w+)\s*= at index b of the token
LetSpace(token, b) ==
    /\ SkipChars(token, b, WhitespaceSet) > b
    /\ LetName(token, SkipChars(token, b, WhitespaceSet))

\* let\s+(\w+)\s*= at index a of the token
LetKeyword(token, a) ==
    /\ StartsWithAt(token, a, "let")
    /\ LetSpace(token, a + Len("let"))

\* token.match(/^\s*let\s+(\w+)\s*=/) is not null
LetAssignmentMatches(token) ==
    LetKeyword(token, SkipChars(token, 1, WhitespaceSet))

\* isValidTableToken without the minimum length
IsValidTableToken_AnyLength(token) ==
    /\ token # ""
    /\ CharAt(token, 1) \in LetterSet
    /\ \A i \in 1..Len(token) : CharAt(token, i) \in WordCharSet

\* isValidTableToken
IsValidTableToken(token) ==
    /\ token # ""
    /\ CharAt(token, 1) \in LetterSet
    /\ \A i \in 1..Len(token) : CharAt(token, i) \in WordCharSet
    /\ Len(token) >= 2

\* PLURAL_TABLE_CORRECTIONS[token.toLowerCase()] || token, and the
\* isValidTableToken test of the corrected name
AddCorrected(tables, token, correction) ==
    IF correction # ""
    THEN (IF IsValidTableToken(correction) THEN SetAdd(tables, correction)
          ELSE tables)
    ELSE (IF IsValidTableToken(token) THEN SetAdd(tables, token) ELSE tables)

\* The body of pipelineHeads.forEach after the ARM branch; lower is
\* token.toLowerCase()
ScanPlainToken(tables, token, lower) ==
    IF lower \in NON_TABLE_TOKENS THEN tables
    ELSE IF LetAssignmentMatches(token) THEN tables
    ELSE IF lower \in InheritedKeys THEN tables
    ELSE AddCorrected(tables, token, Lookup(PLURAL_TABLE_CORRECTIONS, lower))

\* The ARM branch of the body: resolved is what resolveArmVariable returned
\* ("" when the branch was not taken or returned null)
ScanResolvedToken(tables, token, resolved) ==
    IF resolved # "" THEN SetAdd(tables, resolved)
    ELSE ScanPlainToken(tables, token, ToLowerCase(token))

\* The body of pipelineHeads.forEach: the tables set after one token
ScanToken(tables, token, variables) ==
    ScanResolvedToken(tables, token,
                      IF variables.defined /\ ArmMatches(token) # <<>>
                      THEN ResolveArmVariable(token, variables)
                      ELSE "")

RECURSIVE ScanTokens(_, _, _)
ScanTokens(tables, tokens, variables) ==
    IF tokens = <<>> THEN tables
    ELSE ScanTokens(ScanToken(tables, Head(tokens), variables),
                    Tail(tokens), variables)

\* extractTablesFromQuery(query, variables): query is a JSON value
ExtractTablesFromQuery(q, variables) ==
    IF q.t # "str" \/ q.s = "" THEN <<>>
    ELSE LET cleanedQuery == RemoveLineComments(q.s)
             queryWithoutFieldContext == StripPipeCommandBlocks(cleanedQuery)
             pipelineHeads == DetectPipelineHeads(queryWithoutFieldContext)
         IN  ScanTokens(<<>>, pipelineHeads, variables)

-----------------------------------------------------------------------------
(* tableExtractor.ts: the table / parser classifier                         *)

STANDARD_TABLES ==
    { "SecurityEvent", "Syslog", "CommonSecurityLog", "SigninLogs",
      "AuditLogs", "Event", "Heartbeat", "Perf", "Alert", "SecurityAlert",
      "SecurityIncident", "OfficeActivity", "AzureActivity",
      "AzureDiagnostics" }

TABLE_SUFFIXES == {"Logs", "Events", "Users", "Traffic", "Alerts", "Data"}

TABLE_NAME_PREFIXES == {"AAD", "ADFS", "Azure", "AWS", "Office365", "Network"}

\* isLikelyParser with the suffix rule left out
IsLikelyParser_NoSuffixRule(name) ==
    IF EndsWith(name, "_CL") THEN FALSE
    ELSE IF name \in STANDARD_TABLES THEN FALSE
    ELSE IF Includes(name, "_") /\ ~EndsWith(name, "_CL") THEN FALSE
    ELSE IF \E prefix \in TABLE_NAME_PREFIXES : StartsWith(name, prefix) THEN FALSE
    ELSE TRUE

\* isLikelyParser of tableExtractor.ts
IsLikelyParser(name) ==
    IF EndsWith(name, "_CL") THEN FALSE
    ELSE IF name \in STANDARD_TABLES THEN FALSE
    ELSE IF Includes(name, "_") /\ ~EndsWith(name, "_CL") THEN FALSE
    ELSE IF \E suffix \in TABLE_SUFFIXES : EndsWith(name, suffix) THEN FALSE
    ELSE IF \E prefix \in TABLE_NAME_PREFIXES : StartsWith(name, prefix) THEN FALSE
    ELSE TRUE

-----------------------------------------------------------------------------
(* tableExtractor.ts: extractTablesFromConnector                            *)

\* Object.entries(v) of an object or an array: <<key, value>> pairs
EntriesOf(v) ==
    IF v.t = "obj" THEN v.e
    ELSE IF v.t = "arr" THEN [i \in 1..Len(v.e) |-> <<ToString(i - 1), v.e[i]>>]
    ELSE <<>>

\* typeof v === 'object' && v !== null
IsObject(v) == v.t \in {"obj", "arr"}

\* an assignment that keeps the value a key already has
Bind_KeepFirst(pairs, key, value) ==
    IF \E i \in 1..Len(pairs) : pairs[i][1] = key
    THEN pairs
    ELSE Append(pairs, <<key, value>>)

\* variables[key] = value
Bind(pairs, key, value) ==
    IF \E i \in 1..Len(pairs) : pairs[i][1] = key
    THEN [i \in 1..Len(pairs) |->
             IF pairs[i][1] = key THEN <<key, value>> ELSE pairs[i]]
    ELSE Append(pairs, <<key, value>>)

\* Object.entries(obj.variables).forEach: the string entries are bound
RECURSIVE BindStrings(_, _)
BindStrings(pairs, entries) ==
    IF entries = <<>> THEN pairs
    ELSE LET key == Head(entries)[1]
             value == Head(entries)[2]
         IN  BindStrings(IF value.t = "str" THEN Bind(pairs, key, value.s)
                         ELSE pairs,
                         Tail(entries))

\* if (obj.variables && typeof obj.variables === 'object') { ... }
CollectVariables(obj, pairs) ==
    LET v == Get(obj, "variables")
    IN  IF Truthy(v) /\ IsObject(v) THEN BindStrings(pairs, EntriesOf(v))
        ELSE pairs

\* traverseForVariables
RECURSIVE TraverseForVariables(_, _)
RECURSIVE TraverseValues(_, _)
TraverseForVariables(obj, pairs) ==
    IF ~IsObject(obj) THEN pairs
    ELSE TraverseValues(EntriesOf(obj), CollectVariables(obj, pairs))

TraverseValues(entries, pairs) ==
    IF entries = <<>> THEN pairs
    ELSE TraverseValues(Tail(entries),
                        TraverseForVariables(Head(entries)[2], pairs))

\* extractVariables
ExtractVariables(doc) ==
    TraverseForVariables(doc, CollectVariables(doc, <<>>))

\* tables.has(tableName): tables is a Map, <<tableName, method>> pairs
MapHas(tables, tableName) ==
    \E i \in 1..Len(tables) : tables[i][1] = tableName

\* tables.get(tableName), "" for undefined
MapGet(tables, tableName) == Lookup(tables, tableName)

\* tables.keys()
MapKeys(tables) == [i \in 1..Len(tables) |-> tables[i][1]]

\* recordTable that overwrites the method of a table it already holds
RecordTable_Overwrite(acc, tableName, method) ==
    IF IsLikelyParser(tableName)
    THEN [acc EXCEPT !.parserReferences = SetAdd(@, tableName)]
    ELSE [acc EXCEPT !.tables = Bind(@, tableName, method)]

\* recordTable
RecordTable(acc, tableName, method) ==
    IF IsLikelyParser(tableName)
    THEN [acc EXCEPT !.parserReferences = SetAdd(@, tableName)]
    ELSE IF ~MapHas(acc.tables, tableName)
         THEN [acc EXCEPT !.tables = Append(@, <<tableName, method>>)]
         ELSE acc

\* extracted.forEach((table) => recordTable(tables, table, method, ...))
RECURSIVE RecordAll(_, _, _)
RecordAll(acc, names, method) ==
    IF names = <<>> THEN acc
    ELSE RecordAll(RecordTable(acc, Head(names), method), Tail(names), method)

\* `graphQueries.${index}.baseQuery`
MethodName(field, index, subfield) ==
    field \o "." \o ToString(index) \o "." \o subfield

\* The fields of methods 1 to 4 and the property of their elements that
\* holds the query, in the order the code goes through them
QUERY_FIELDS ==
    << <<"graphQueries", "baseQuery">>,
       <<"sampleQueries", "query">>,
       <<"dataTypes", "lastDataReceivedQuery">>,
       <<"connectivityCriterias", "value">> >>

\* Array.isArray(criteria.value) ? criteria.value : [criteria.value], and of
\* these the strings
CriteriaValues(value) ==
    IF value.t = "arr" THEN SelectSeq(value.e, LAMBDA v : v.t = "str")
    ELSE IF value.t = "str" THEN <<value>>
    ELSE <<>>

\* What the forEach callback of a field hands to extractTablesFromQuery for
\* one element: the truthy property, for connectivityCriterias its strings
ElementQueries(value, field) ==
    IF ~Truthy(value) THEN <<>>
    ELSE IF field = "connectivityCriterias" THEN CriteriaValues(value)
    ELSE <<value>>

\* extractTablesFromQuery(q, variables) and extracted.forEach, for each q
RECURSIVE RecordQueries(_, _, _)
RecordQueries(acc, queries, method) ==
    IF queries = <<>> THEN acc
    ELSE RecordQueries(
            RecordAll(acc,
                      ExtractTablesFromQuery(Head(queries), Variables(acc.variables)),
                      method),
            Tail(queries), method)

\* connector.<field>.forEach(...), from the element at 1-based position i on;
\* reading a property of a null element throws, and an exception ends the
\* whole extraction
RECURSIVE FieldElements(_, _, _, _, _)
FieldElements(acc, elements, i, field, subfield) ==
    IF i > Len(elements) \/ acc.threw THEN acc
    ELSE FieldElements(
            IF elements[i].t = "null" THEN [acc EXCEPT !.threw = TRUE]
            ELSE RecordQueries(acc,
                               ElementQueries(Get(elements[i], subfield), field),
                               MethodName(field, i - 1, subfield)),
            elements, i + 1, field, subfield)

\* if (connector.<field>) { connector.<field>.forEach(...) }: a truthy value
\* that is no array has no forEach, and the call throws
QueryField(acc, v, field, subfield) ==
    IF acc.threw \/ ~Truthy(v) THEN acc
    ELSE IF v.t # "arr" THEN [acc EXCEPT !.threw = TRUE]
    ELSE FieldElements(acc, v.e, 1, field, subfield)

\* Methods 1 to 4, one after the other
RECURSIVE QueryFields(_, _, _)
QueryFields(acc, doc, fields) ==
    IF fields = <<>> THEN acc
    ELSE QueryFields(QueryField(acc, Get(doc, Head(fields)[1]),
                                Head(fields)[1], Head(fields)[2]),
                     doc, Tail(fields))

\* Method 5
LogAnalyticsTableId(acc) ==
    IF acc.threw \/ Lookup(acc.variables, "logAnalyticsTableId") = "" THEN acc
    ELSE RecordTable(acc, Lookup(acc.variables, "logAnalyticsTableId"),
                     "variables.logAnalyticsTableId")

\* extractTablesFromConnector: { tables, parserReferences, variables }, or
\* threw when the call ended in an exception
ExtractTablesFromConnector(doc) ==
    LogAnalyticsTableId(
        QueryFields([tables |-> <<>>, parserReferences |-> <<>>,
                     variables |-> ExtractVariables(doc), threw |-> FALSE],
                    doc, QUERY_FIELDS))

\* resolveTablePriority that returns the first table whatever its name
ResolveTablePriority_FirstOnly(tables) ==
    IF tables = <<>> THEN JNull
    ELSE IF MapKeys(tables)[1] = "" THEN JNull ELSE JStr(MapKeys(tables)[1])

\* resolveTablePriority: the first _CL table, else the first ASIM / Asim
\* table, else tables.keys().next().value || null
ResolveTablePriority(tables) ==
    LET keys == MapKeys(tables)
        custom == {i \in 1..Len(keys) : EndsWith(keys[i], "_CL")}
        asim == {i \in 1..Len(keys) :
                    StartsWith(keys[i], "ASIM") \/ StartsWith(keys[i], "Asim")}
        Least(S) == CHOOSE i \in S : \A j \in S : i <= j
    IN  IF tables = <<>> THEN JNull
        ELSE IF custom # {} THEN JStr(keys[Least(custom)])
        ELSE IF asim # {} THEN JStr(keys[Least(asim)])
        ELSE IF keys[1] = "" THEN JNull ELSE JStr(keys[1])

-----------------------------------------------------------------------------
(* parserResolver.ts: the catalog's classifier                              *)

RESOLVER_STANDARD_TABLES ==
    { "SecurityEvent", "Syslog", "CommonSecurityLog", "SigninLogs",
      "AuditLogs", "Event", "Heartbeat", "Perf", "Alert", "SecurityAlert",
      "SecurityIncident", "OfficeActivity", "AzureActivity",
      "AzureDiagnostics" }

\* ParserResolver.isLikelyParser
ResolverIsLikelyParser(name) ==
    IF EndsWith(name, "_CL") THEN FALSE
    ELSE IF name \in RESOLVER_STANDARD_TABLES THEN FALSE
    ELSE IF Includes(name, "_") /\ ~EndsWith(name, "_CL") THEN FALSE
    ELSE TRUE

-----------------------------------------------------------------------------
(* parserResolver.ts: resolveParser                                         *)

MAX_RESOLUTION_DEPTH == 5

\* new Map(): no entry
EmptyMap == [k \in {} |-> {}]

\* map.set(key, value)
MapSet(map, key, value) ==
    [k \in DOMAIN map \cup {key} |-> IF k = key THEN value ELSE map[k]]

ParserInfo(name, tables, parserReferences) ==
    [name |-> name, tables |-> tables, parserReferences |-> parserReferences]

\* the guard with both conditions left out
ShouldStop_Never(parserName, visitedNames, depth) == FALSE

\* the guard with the depth compared by >=
ShouldStop_OffByOne(parserName, visitedNames, depth) ==
    parserName \in visitedNames \/ depth >= MAX_RESOLUTION_DEPTH

\* the guard without the cycle check
ShouldStop_DepthOnly(parserName, visitedNames, depth) ==
    depth > MAX_RESOLUTION_DEPTH

\* visited.has(parserName) || depth > MAX_RESOLUTION_DEPTH
ShouldStop(parserName, visitedNames, depth) ==
    parserName \in visitedNames \/ depth > MAX_RESOLUTION_DEPTH

\* The frames one thread of nested calls can hold before the engine throws
\* RangeError (maximum call stack size exceeded).
StackLimit == 12

\* A call that has just been made: nothing of its body has run
NewFrame(parserName, depth) ==
    [name |-> parserName, depth |-> depth, pc |-> "entry",
     todo |-> <<>>, resolvedTables |-> <<>>]

Top == rstack[Len(rstack)]

\* a return that replaces what the caller has collected by the returned set
ReturnFromTop_Replace(tables) ==
    IF Len(rstack) = 1
    THEN /\ rstack' = <<>>
         /\ rresult' = tables
         /\ rstatus' = "done"
    ELSE /\ rstack' = [SubSeq(rstack, 1, Len(rstack) - 1)
                          EXCEPT ![Len(rstack) - 1].resolvedTables = tables]
         /\ UNCHANGED <<rresult, rstatus>>

\* The innermost call returns `tables`: to the caller's loop body
\* (nestedTables.forEach(add)), or as the result of the top-level call.
ReturnFromTop(tables) ==
    IF Len(rstack) = 1
    THEN /\ rstack' = <<>>
         /\ rresult' = tables
         /\ rstatus' = "done"
    ELSE LET caller == rstack[Len(rstack) - 1]
         IN  /\ rstack' = [SubSeq(rstack, 1, Len(rstack) - 1)
                              EXCEPT ![Len(rstack) - 1].resolvedTables =
                                  SetAddAll(caller.resolvedTables, tables)]
             /\ UNCHANGED <<rresult, rstatus>>

\* resolveParser from its first line to the start of the for loop
REnter ==
    /\ rstatus = "running"
    /\ rstack # <<>>
    /\ Top.pc = "entry"
    /\ IF ShouldStop(Top.name, visited, Top.depth)
       THEN /\ ReturnFromTop(<<>>)
            /\ cutoffs' = Append(cutoffs,
                    [name |-> Top.name, depth |-> Top.depth,
                     why |-> IF Top.name \in visited THEN "visited" ELSE "depth"])
            /\ UNCHANGED <<visited, expansions>>
       ELSE /\ visited' = visited \cup {Top.name}
            /\ IF Top.name \notin DOMAIN parserCache
               THEN /\ ReturnFromTop(<<>>)
                    /\ cutoffs' = Append(cutoffs,
                            [name |-> Top.name, depth |-> Top.depth,
                             why |-> "unknown"])
                    /\ UNCHANGED expansions
               ELSE /\ rstack' = [rstack EXCEPT ![Len(rstack)] =
                            [@ EXCEPT !.pc = "loop",
                                      !.todo = parserCache[Top.name].parserReferences,
                                      !.resolvedTables =
                                          SetAddAll(<<>>, parserCache[Top.name].tables)]]
                    /\ expansions' = Append(expansions,
                            [name |-> Top.name, depth |-> Top.depth])
                    /\ UNCHANGED <<rresult, rstatus, cutoffs>>
    /\ UNCHANGED <<parserCache, startName>>

\* a nested call made at the depth of its caller
NestedDepth_Same(depth) == depth

\* The depth argument of a nested call: depth + 1
NestedDepth(depth) == depth + 1

\* One iteration of the for loop: the nested call this.resolveParser(
\* nestedParser, visited, depth + 1) is made.
RCall ==
    /\ rstatus = "running"
    /\ rstack # <<>>
    /\ Top.pc = "loop"
    /\ Top.todo # <<>>
    /\ IF Len(rstack) >= StackLimit
       THEN /\ rstatus' = "error"
            /\ UNCHANGED rstack
       ELSE /\ rstack' = Append([rstack EXCEPT ![Len(rstack)].todo = Tail(@)],
                                NewFrame(Head(Top.todo), NestedDepth(Top.depth)))
            /\ UNCHANGED rstatus
    /\ UNCHANGED <<parserCache, startName, visited, rresult, expansions, cutoffs>>

\* The for loop is over: return resolvedTables
RReturn ==
    /\ rstatus = "running"
    /\ rstack # <<>>
    /\ Top.pc = "loop"
    /\ Top.todo = <<>>
    /\ ReturnFromTop(Top.resolvedTables)
    /\ UNCHANGED <<parserCache, startName, visited, expansions, cutoffs>>

\* resolveParser as a function of its arguments: the returned set and the
\* visited set as the call leaves it
RECURSIVE ResolveParser(_, _, _, _)
RECURSIVE ResolveNested(_, _, _, _, _)
ResolveParser(cache, parserName, visitedNames, depth) ==
    IF ShouldStop(parserName, visitedNames, depth)
    THEN [tables |-> <<>>, visited |-> visitedNames]
    ELSE IF parserName \notin DOMAIN cache
    THEN [tables |-> <<>>, visited |-> visitedNames \cup {parserName}]
    ELSE ResolveNested(cache, cache[parserName].parserReferences,
                       visitedNames \cup {parserName}, depth,
                       SetAddAll(<<>>, cache[parserName].tables))

\* the for loop of resolveParser over the remaining references
ResolveNested(cache, refs, visitedNames, depth, resolvedTables) ==
    IF refs = <<>> THEN [tables |-> resolvedTables, visited |-> visitedNames]
    ELSE LET nested == ResolveParser(cache, Head(refs), visitedNames, depth + 1)
         IN  ResolveNested(cache, Tail(refs), nested.visited, depth,
                           SetAddAll(resolvedTables, nested.tables))

\* resolveMultipleParsers: every name from depth 0 with a new visited set
RECURSIVE ResolveMultipleParsers(_, _)
ResolveMultipleParsers(cache, parserNames) ==
    IF parserNames = <<>> THEN <<>>
    ELSE SetAddAll(ResolveParser(cache, Head(parserNames), {}, 0).tables,
                   ResolveMultipleParsers(cache, Tail(parserNames)))

-----------------------------------------------------------------------------
(* parserResolver.ts: loadParsers                                           *)

\* The content of a repository file: getFileContent throws ("missing"), the
\* text does not parse ("invalid"), or it parses to a document.
Missing == [kind |-> "missing", doc |-> JNull]
Invalid == [kind |-> "invalid", doc |-> JNull]
Doc(d) == [kind |-> "doc", doc |-> d]

ContentOf(files, path) == IF path \in DOMAIN files THEN files[path] ELSE Missing

\* a || b || ... : the first truthy value (JNull when there is none)
RECURSIVE FirstTruthy(_)
FirstTruthy(values) ==
    IF values = <<>> THEN JNull
    ELSE IF Truthy(Head(values)) THEN Head(values)
    ELSE FirstTruthy(Tail(values))

\* parserDef.resources of an ARM template, as the for...of loop sees it
ResourcesOf(parserDef) ==
    LET r == Get(parserDef, "resources")
    IN  IF r.t = "arr" THEN r.e ELSE <<>>

\* for...of over a truthy `resources` that is no array throws
ResourcesThrow(parserDef) ==
    LET r == Get(parserDef, "resources")
    IN  Truthy(r) /\ r.t \notin {"arr", "str"}

\* extractFunctionName
ExtractFunctionName(parserDef) ==
    FirstTruthy(
        << Get(parserDef, "FunctionName"),
           Get(Get(parserDef, "function"), "name"),
           Get(Get(parserDef, "metadata"), "name"),
           Get(parserDef, "name") >>
        \o [i \in 1..Len(ResourcesOf(parserDef)) |->
              Get(Get(ResourcesOf(parserDef)[i], "properties"), "savedQueryName")])

\* extractFunctionQuery
ExtractFunctionQuery(parserDef) ==
    FirstTruthy(
        << Get(parserDef, "FunctionQuery"),
           Get(Get(parserDef, "function"), "query"),
           Get(parserDef, "body"),
           Get(parserDef, "query") >>
        \o [i \in 1..Len(ResourcesOf(parserDef)) |->
              FirstTruthy(
                << Get(Get(ResourcesOf(parserDef)[i], "properties"), "functionAlias"),
                   Get(Get(ResourcesOf(parserDef)[i], "properties"), "query") >>)])

\* tables.forEach: the scanned names the catalog's classifier keeps as tables
\* (keepParsers = FALSE) or as parser references (keepParsers = TRUE)
RECURSIVE Separate(_, _)
Separate(names, keepParsers) ==
    IF names = <<>> THEN <<>>
    ELSE IF ResolverIsLikelyParser(Head(names)) = keepParsers
         THEN <<Head(names)>> \o Separate(Tail(names), keepParsers)
         ELSE Separate(Tail(names), keepParsers)

\* this.parserCache.set(functionName, {...}) with the scanned names
\* separated by the catalog's classifier
CacheParser(cache, name, tables) ==
    MapSet(cache, name,
           ParserInfo(name, Separate(tables, FALSE), Separate(tables, TRUE)))

\* parseParserFile from the extraction of name and query on; throws says
\* that `resources` could not be iterated, which ends the call when one of
\* the two extractions got that far
ParseParserDef(cache, functionName, functionQuery, throws) ==
    IF throws /\ (functionName.t = "null" \/ functionQuery.t = "null") THEN cache
    ELSE IF ~Truthy(functionName) \/ ~Truthy(functionQuery) THEN cache
    ELSE IF functionName.t # "str" THEN cache
    ELSE CacheParser(cache, functionName.s,
                     ExtractTablesFromQuery(functionQuery, NoVariables))

\* parseParserFile: the catalog after the file at `path` has been processed.
\* Every failure leaves the catalog as it was.
ParseParserFile(cache, files, path) ==
    IF ContentOf(files, path).kind # "doc" THEN cache
    ELSE ParseParserDef(cache,
                        ExtractFunctionName(ContentOf(files, path).doc),
                        ExtractFunctionQuery(ContentOf(files, path).doc),
                        ResourcesThrow(ContentOf(files, path).doc))

\* Whether parseParserFile ends in its catch block for the file at `path`:
\* the fetch or the parse throws, or `resources` cannot be iterated
ParserFileThrows(files, path) ==
    \/ ContentOf(files, path).kind # "doc"
    \/ /\ ResourcesThrow(ContentOf(files, path).doc)
       /\ \/ ExtractFunctionName(ContentOf(files, path).doc).t = "null"
          \/ ExtractFunctionQuery(ContentOf(files, path).doc).t = "null"

\* a loop that an exception in parseParserFile leaves
AfterParserFile_Abort(parserFiles, threw) ==
    IF threw THEN <<>> ELSE Tail(parserFiles)

\* for (const file of parserFiles) { await this.parseParserFile(...) }:
\* parseParserFile catches what it throws, so the loop goes on with the next
\* file either way
AfterParserFile(parserFiles, threw) == Tail(parserFiles)

\* loadParsers: the for loop over the parser files, from `cache` on
RECURSIVE LoadParsers(_, _, _)
LoadParsers(cache, files, paths) ==
    IF paths = <<>> THEN cache
    ELSE LoadParsers(ParseParserFile(cache, files, Head(paths)), files, Tail(paths))

\* The paths of the tree's blobs that start with `prefix` and end with one
\* of `extensions`, in tree order
RECURSIVE FilterBlobs(_, _, _)
FilterBlobs(tree, prefix, extensions) ==
    IF tree = <<>> THEN <<>>
    ELSE LET item == Head(tree)
         IN  (IF /\ StartsWith(item.path, prefix)
                 /\ \E x \in extensions : EndsWith(item.path, x)
                 /\ item.type = "blob"
              THEN <<item.path>> ELSE <<>>)
             \o FilterBlobs(Tail(tree), prefix, extensions)

\* loadParsers: the parser files of the solution
ParserFiles(tree, solutionPath) ==
    FilterBlobs(tree, solutionPath \o "/Parsers", {".yaml", ".yml", ".json"})

-----------------------------------------------------------------------------
(* solutionLoader.ts                                                        *)

\* a name with the solution directories of the tree, first occurrence first
RECURSIVE SolutionNames(_)
SolutionNames(tree) ==
    IF tree = <<>> THEN <<>>
    ELSE LET item == tree[Len(tree)]
             before == SolutionNames(SubSeq(tree, 1, Len(tree) - 1))
             parts == Split(item.path, "/")
         IN  IF StartsWith(item.path, "Solutions/") /\ item.type = "tree"
                  /\ Len(parts) >= 2
             THEN SetAdd(before, parts[2])
             ELSE before

ConnectorFiles(tree, solutionPath) ==
    FilterBlobs(tree, solutionPath \o "/Data Connectors", {".json"})

Issue(solution, connectorId, issueType, filePath) ==
    [solution |-> solution, connectorId |-> connectorId,
     issueType |-> issueType, filePath |-> filePath]

\* loadSolutionMetadata: the metadata name, and whether the file was usable
MetadataOf(files, solutionPath, solutionName) ==
    LET content == ContentOf(files, solutionPath \o "/SolutionMetadata.json")
        name == Get(content.doc, "name")
    IN  IF content.kind # "doc" \/ ~Truthy(content.doc)
        THEN [ok |-> FALSE, name |-> solutionName]
        ELSE [ok |-> TRUE,
              name |-> IF name.t = "str" /\ name.s # "" THEN name.s
                       ELSE solutionName]

\* new Set([...extraction.tables.keys(), ...resolvedParserTables]) without
\* the resolved tables
AllTables_DirectOnly(extracted, resolvedParserTables) ==
    SetAddAll(<<>>, MapKeys(extracted.tables))

\* new Set([...extraction.tables.keys(), ...resolvedParserTables])
AllTables(extracted, resolvedParserTables) ==
    SetAddAll(SetAddAll(<<>>, MapKeys(extracted.tables)), resolvedParserTables)

\* extraction.tables.get(tableName) || 'parser_resolution'
DetectionMethod(extracted, tableName) ==
    IF MapGet(extracted.tables, tableName) # ""
    THEN MapGet(extracted.tables, tableName)
    ELSE "parser_resolution"

\* this.tableOccurrences.get(tableName) || 0
Occurrences(occurrences, tableName) ==
    LET hits == {i \in 1..Len(occurrences) : occurrences[i][1] = tableName}
    IN  IF hits = {} THEN 0 ELSE occurrences[CHOOSE i \in hits : TRUE][2]

\* allTables.forEach: one mapping per table, and its occurrence counted
RECURSIVE PushMappings(_, _, _, _)
PushMappings(acc, names, extracted, about) ==
    IF names = <<>> THEN acc
    ELSE LET tableName == Head(names)
             mapping == [solution |-> about.solution,
                         connectorId |-> about.connectorId,
                         tableName |-> tableName,
                         isUnique |-> FALSE,
                         detectionMethod |-> DetectionMethod(extracted, tableName),
                         connectorFile |-> about.filePath]
         IN  PushMappings(
                [mappings |-> Append(acc.mappings, mapping),
                 tableOccurrences |->
                    Bind(acc.tableOccurrences, tableName,
                         Occurrences(acc.tableOccurrences, tableName) + 1)],
                Tail(names), extracted, about)

\* calculateTableUniqueness that takes any counted table for unique
CalculateTableUniqueness_AnyCount(ms, occurrences) ==
    [i \in 1..Len(ms) |->
        [ms[i] EXCEPT !.isUnique = (Occurrences(occurrences, ms[i].tableName) >= 1)]]

\* calculateTableUniqueness
CalculateTableUniqueness(ms, occurrences) ==
    [i \in 1..Len(ms) |->
        [ms[i] EXCEPT !.isUnique = (Occurrences(occurrences, ms[i].tableName) = 1)]]

\* allTables.size === 0 && extraction.parserReferences.size === 0, with the
\* test of the parser references left out
NoTableDefinitions_IgnoresReferences(allTables, extracted) == allTables = <<>>

\* allTables.size === 0 && extraction.parserReferences.size === 0
NoTableDefinitions(allTables, extracted) ==
    allTables = <<>> /\ extracted.parserReferences = <<>>

\* the parser_tables_only test on the direct tables instead of allTables
ParserTablesOnly_DirectOnly(allTables, extracted) ==
    MapKeys(extracted.tables) = <<>> /\ extracted.parserReferences # <<>>

\* allTables.size === 0 && extraction.parserReferences.size > 0
ParserTablesOnly(allTables, extracted) ==
    allTables = <<>> /\ extracted.parserReferences # <<>>

\* a failure that is not put on record
RecordFailure_Silent(recorded, solutionName, filePath) == recorded

\* this.issues.push({ issueType: 'json_parse_error', ... }): the document
\* did not parse, or the try block threw
RecordFailure(recorded, solutionName, filePath) ==
    Append(recorded, Issue(solutionName, "", "json_parse_error", filePath))

\* connector.id || 'unknown'
ConnectorId(doc) ==
    IF Get(doc, "id").t = "str" /\ Get(doc, "id").s # ""
    THEN Get(doc, "id").s ELSE "unknown"

\* a loadParsers() call that is not awaited: the caller goes on at once
LoadComplete_NotAwaited(parserFiles) == TRUE

\* await parserResolver.loadParsers(): the caller goes on when the loop over
\* the parser files is over
LoadComplete(parserFiles) == parserFiles = <<>>

\* The steps of one analyze() run.  pc is the position and the locals of the
\* run and cache the parserCache of its current ParserResolver (pcNext and
\* cacheNext after the step); mappings, issues and tableOccurrences are the
\* fields of the SolutionLoader.  A step runs from one await to the next.

\* analyze() without the three assignments at its start
Analyze_NoReset(pc, pcNext, cache, cacheNext) ==
    /\ pc.phase = "start"
    /\ pcNext = [pc EXCEPT !.phase = "solutions",
                           !.solutions = SolutionNames(repo.tree)]
    /\ cacheNext = cache
    /\ UNCHANGED <<repo, mappings, issues, tableOccurrences, analysed>>

\* analyze(): the accumulators are reset, the tree is read and the solution
\* names are collected.
Analyze(pc, pcNext, cache, cacheNext) ==
    /\ pc.phase = "start"
    /\ mappings' = <<>>
    /\ issues' = <<>>
    /\ tableOccurrences' = <<>>
    /\ pcNext = [pc EXCEPT !.phase = "solutions",
                           !.solutions = SolutionNames(repo.tree)]
    /\ cacheNext = cache
    /\ UNCHANGED <<repo, analysed>>

\* analyzeSolution up to `new ParserResolver(...)`: the metadata is loaded
\* and the connector files are listed; a solution without connector files
\* is left at once.
AnalyzeSolution(pc, pcNext, cache, cacheNext) ==
    /\ pc.phase = "solutions"
    /\ pc.solutions # <<>>
    /\ LET solutionName == Head(pc.solutions)
           solutionPath == "Solutions/" \o solutionName
           metadata == MetadataOf(repo.files, solutionPath, solutionName)
           connectorFiles == ConnectorFiles(repo.tree, solutionPath)
       IN  /\ issues' = IF metadata.ok THEN issues
                        ELSE Append(issues,
                                Issue(solutionName, "", "missing_metadata",
                                      solutionPath \o "/SolutionMetadata.json"))
           /\ IF connectorFiles = <<>>
              THEN /\ pcNext = [pc EXCEPT !.solutions = Tail(@)]
                   /\ cacheNext = cache
              ELSE /\ pcNext = [pc EXCEPT
                                !.phase = "parsers",
                                !.solutions = Tail(@),
                                !.solutionName = solutionName,
                                !.metadataName = metadata.name,
                                !.parserFiles = ParserFiles(repo.tree, solutionPath),
                                !.connectorFiles = connectorFiles]
                   /\ cacheNext = EmptyMap
    /\ UNCHANGED <<repo, mappings, tableOccurrences, analysed>>

\* loadParsers: one iteration of `for (const file of parserFiles)`
LoadParser(pc, pcNext, cache, cacheNext) ==
    /\ pc.phase = "parsers"
    /\ pc.parserFiles # <<>>
    /\ cacheNext = ParseParserFile(cache, repo.files, Head(pc.parserFiles))
    /\ pcNext = [pc EXCEPT !.parserFiles =
                    AfterParserFile(@, ParserFileThrows(repo.files, Head(@)))]
    /\ UNCHANGED <<repo, mappings, issues, tableOccurrences, analysed>>

\* loadParsers returns: the connectors of the solution are next
ParsersLoaded(pc, pcNext, cache, cacheNext) ==
    /\ pc.phase = "parsers"
    /\ LoadComplete(pc.parserFiles)
    /\ pcNext = [pc EXCEPT !.phase = "connectors"]
    /\ cacheNext = cache
    /\ UNCHANGED <<repo, mappings, issues, tableOccurrences, analysed>>

\* analyzeConnector for the next connector file of the solution, up to the
\* await of resolveMultipleParsers: the file is fetched and parsed and the
\* tables are extracted; a failure is put on record and ends the call.
AnalyzeConnector(pc, pcNext, cache, cacheNext) ==
    /\ pc.phase = "connectors"
    /\ pc.connectorFiles # <<>>
    /\ \E filePath \in {Head(pc.connectorFiles)} :
       \E content \in {ContentOf(repo.files, filePath)} :
       \E extracted \in {ExtractTablesFromConnector(content.doc)} :
          IF content.kind # "doc" \/ ~Truthy(content.doc) \/ extracted.threw
          THEN /\ issues' = RecordFailure(issues, pc.solutionName, filePath)
               /\ pcNext = [pc EXCEPT !.connectorFiles = Tail(@)]
          ELSE /\ pcNext = [pc EXCEPT !.phase = "resolving",
                                      !.connectorId = ConnectorId(content.doc),
                                      !.extraction = extracted]
               /\ UNCHANGED issues
    /\ cacheNext = cache
    /\ UNCHANGED <<repo, mappings, tableOccurrences, analysed>>

\* analyzeConnector from the await of resolveMultipleParsers to its end: the
\* parser references are resolved against the catalog, the tables are
\* combined, and the issues and mappings of the connector are put on record.
ResolveConnector(pc, pcNext, cache, cacheNext) ==
    /\ pc.phase = "resolving"
    /\ \E filePath \in {Head(pc.connectorFiles)} :
       \E extracted \in {pc.extraction} :
       \E resolvedParserTables \in
            {ResolveMultipleParsers(cache, extracted.parserReferences)} :
       \E allTables \in {AllTables(extracted, resolvedParserTables)} :
          /\ analysed' = Append(analysed,
                  [filePath |-> filePath, extraction |-> extracted,
                   resolved |-> resolvedParserTables,
                   catalog |-> cache, pending |-> pc.parserFiles])
          /\ IF NoTableDefinitions(allTables, extracted)
             THEN /\ issues' = Append(issues,
                          Issue(pc.solutionName, pc.connectorId,
                                "no_table_definitions", filePath))
                  /\ UNCHANGED <<mappings, tableOccurrences>>
             ELSE /\ issues' =
                        IF ParserTablesOnly(allTables, extracted)
                        THEN Append(issues,
                                Issue(pc.solutionName, pc.connectorId,
                                      "parser_tables_only", filePath))
                        ELSE issues
                  /\ \E pushed \in
                       {PushMappings([mappings |-> mappings,
                                      tableOccurrences |-> tableOccurrences],
                                     allTables, extracted,
                                     [solution |-> pc.metadataName,
                                      connectorId |-> pc.connectorId,
                                      filePath |-> filePath])} :
                        /\ mappings' = pushed.mappings
                        /\ tableOccurrences' = pushed.tableOccurrences
    /\ pcNext = [pc EXCEPT !.phase = "connectors",
                           !.connectorFiles = Tail(@),
                           !.connectorId = "",
                           !.extraction = <<>>]
    /\ cacheNext = cache
    /\ UNCHANGED repo

\* analyzeSolution returns: the next solution
SolutionDone(pc, pcNext, cache, cacheNext) ==
    /\ pc.phase = "connectors"
    /\ pc.connectorFiles = <<>>
    /\ pcNext = [pc EXCEPT !.phase = "solutions"]
    /\ cacheNext = cache
    /\ UNCHANGED <<repo, mappings, issues, tableOccurrences, analysed>>

\* analyze() after the loop: calculateTableUniqueness, and the result is
\* returned (`returned` is the result as the caller reads it at that moment)
AnalyzeReturn(pc, pcNext, cache, cacheNext) ==
    /\ pc.phase = "solutions"
    /\ pc.solutions = <<>>
    /\ \E finished \in {CalculateTableUniqueness(mappings, tableOccurrences)} :
          /\ mappings' = finished
          /\ pcNext = [pc EXCEPT !.phase = "done",
                                 !.returned = [mappings |-> finished,
                                               issues |-> issues]]
    /\ cacheNext = cache
    /\ UNCHANGED <<repo, issues, tableOccurrences, analysed>>

-----------------------------------------------------------------------------
(* singleSolutionLoader.ts                                                  *)

\* item.path.endsWith('.json') || item.path.endsWith('.JSON')
SingleConnectorFiles(tree, solutionPath) ==
    FilterBlobs(tree, solutionPath \o "/Data Connectors", {".json", ".JSON"})

\* connectorData.tables.forEach((table) => allTables.add(table)), for every
\* connector of the result
RECURSIVE UniqueTables(_)
UniqueTables(connectors) ==
    IF connectors = <<>> THEN <<>>
    ELSE SetAddAll(UniqueTables(SubSeq(connectors, 1, Len(connectors) - 1)),
                   connectors[Len(connectors)].tables)

\* what analyzeSolution(solutionName) returns: null (found is FALSE) or the
\* connectors with their tables and the tables of the solution
SolutionDetails(found, connectors) ==
    [found |-> found, connectors |-> connectors,
     uniqueTables |-> UniqueTables(connectors)]

\* The steps of one SingleSolutionLoader.analyzeSolution(solutionName) call;
\* pc.solutionName is its argument and pc.connectors its local of that name.

\* analyzeSolution up to `new ParserResolver(...)`: without metadata the call
\* returns null, without connector files it returns an empty result.
SingleAnalyzeSolution(pc, pcNext, cache, cacheNext) ==
    /\ pc.phase = "singleStart"
    /\ LET solutionPath == "Solutions/" \o pc.solutionName
           metadata == MetadataOf(repo.files, solutionPath, pc.solutionName)
           connectorFiles == SingleConnectorFiles(repo.tree, solutionPath)
       IN  IF ~metadata.ok
           THEN /\ pcNext = [pc EXCEPT !.phase = "singleDone",
                                       !.returned = SolutionDetails(FALSE, <<>>)]
                /\ cacheNext = cache
           ELSE IF connectorFiles = <<>>
           THEN /\ pcNext = [pc EXCEPT !.phase = "singleDone",
                                       !.metadataName = metadata.name,
                                       !.returned = SolutionDetails(TRUE, <<>>)]
                /\ cacheNext = cache
           ELSE /\ pcNext = [pc EXCEPT
                                !.phase = "singleParsers",
                                !.metadataName = metadata.name,
                                !.parserFiles = ParserFiles(repo.tree, solutionPath),
                                !.connectorFiles = connectorFiles]
                /\ cacheNext = EmptyMap
    /\ UNCHANGED <<repo, mappings, issues, tableOccurrences, analysed>>

\* loadParsers: one iteration of `for (const file of parserFiles)`
SingleLoadParser(pc, pcNext, cache, cacheNext) ==
    /\ pc.phase = "singleParsers"
    /\ pc.parserFiles # <<>>
    /\ cacheNext = ParseParserFile(cache, repo.files, Head(pc.parserFiles))
    /\ pcNext = [pc EXCEPT !.parserFiles =
                    AfterParserFile(@, ParserFileThrows(repo.files, Head(@)))]
    /\ UNCHANGED <<repo, mappings, issues, tableOccurrences, analysed>>

\* loadParsers returns: the connectors are next
SingleParsersLoaded(pc, pcNext, cache, cacheNext) ==
    /\ pc.phase = "singleParsers"
    /\ LoadComplete(pc.parserFiles)
    /\ pcNext = [pc EXCEPT !.phase = "singleConnectors"]
    /\ cacheNext = cache
    /\ UNCHANGED <<repo, mappings, issues, tableOccurrences, analysed>>

\* analyzeConnector up to the await of resolveMultipleParsers; a failure
\* makes the call return null, and the file is left out of the result.
SingleAnalyzeConnector(pc, pcNext, cache, cacheNext) ==
    /\ pc.phase = "singleConnectors"
    /\ pc.connectorFiles # <<>>
    /\ \E content \in {ContentOf(repo.files, Head(pc.connectorFiles))} :
       \E extracted \in {ExtractTablesFromConnector(content.doc)} :
          IF content.kind # "doc" \/ ~Truthy(content.doc) \/ extracted.threw
          THEN pcNext = [pc EXCEPT !.connectorFiles = Tail(@)]
          ELSE pcNext = [pc EXCEPT !.phase = "singleResolving",
                                   !.connectorId = ConnectorId(content.doc),
                                   !.extraction = extracted]
    /\ cacheNext = cache
    /\ UNCHANGED <<repo, mappings, issues, tableOccurrences, analysed>>

\* analyzeConnector from the await of resolveMultipleParsers to its end, and
\* connectors.push(connectorData) in analyzeSolution
SingleResolveConnector(pc, pcNext, cache, cacheNext) ==
    /\ pc.phase = "singleResolving"
    /\ \E extracted \in {pc.extraction} :
       \E resolvedParserTables \in
            {ResolveMultipleParsers(cache, extracted.parserReferences)} :
          /\ analysed' = Append(analysed,
                  [filePath |-> Head(pc.connectorFiles), extraction |-> extracted,
                   resolved |-> resolvedParserTables,
                   catalog |-> cache, pending |-> pc.parserFiles])
          /\ pcNext = [pc EXCEPT
                        !.phase = "singleConnectors",
                        !.connectorFiles = Tail(@),
                        !.connectorId = "",
                        !.extraction = <<>>,
                        !.connectors =
                            Append(@, [id |-> pc.connectorId,
                                       tables |-> AllTables(extracted,
                                                      resolvedParserTables)])]
    /\ cacheNext = cache
    /\ UNCHANGED <<repo, mappings, issues, tableOccurrences>>

\* analyzeSolution returns the details of the solution
SingleReturn(pc, pcNext, cache, cacheNext) ==
    /\ pc.phase = "singleConnectors"
    /\ pc.connectorFiles = <<>>
    /\ pcNext = [pc EXCEPT !.phase = "singleDone",
                           !.returned = SolutionDetails(TRUE, pc.connectors)]
    /\ cacheNext = cache
    /\ UNCHANGED <<repo, mappings, issues, tableOccurrences, analysed>>

-----------------------------------------------------------------------------
(* parserResolver.ts: calls that run side by side on one ParserResolver      *)

\* A caller's task: an optional extractTablesFromConnector call and then one
\* resolveMultipleParsers call with the resolveParser calls it awaits.  All
\* the task holds is local to its calls: the set under construction, the
\* visited set and the frames of the resolveParser call in progress.
Task(doc, names, phase) ==
    [doc |-> doc, phase |-> phase, extraction |-> <<>>,
     parserNames |-> names, todo |-> names, allTables |-> <<>>,
     visited |-> {}, stack |-> <<>>, result |-> <<>>, beside |-> FALSE]

\* one visited set handed to the call for every name of the loop
FreshVisited_Reused(onResolver, own) == own

\* a visited set kept on the resolver from one top-level call to the next
FreshVisited_OnResolver(onResolver, own) == onResolver

\* visited: Set<string> = new Set(): the default of a top-level call.
\* onResolver and own are what earlier calls have visited, on the whole
\* resolver and in the same resolveMultipleParsers call: a new set has
\* nothing of either.
FreshVisited(onResolver, own) == {}

\* a visited set that all the calls on the resolver share
VisitedSeenBy_Shared(all, t) == UNION {all[u].visited : u \in DOMAIN all}

\* the visited set a call tests and extends: the one handed down to it
VisitedSeenBy(all, t) == all[t].visited

TopOf(task) == task.stack[Len(task.stack)]

\* The innermost resolveParser call of the task returns `tables`: to its
\* caller's loop body, or to the loop body of resolveMultipleParsers
\* (tables.forEach((table) => allTables.add(table))).
NestedReturns(task, tables) ==
    IF Len(task.stack) = 1
    THEN [task EXCEPT !.stack = <<>>,
                      !.allTables = SetAddAll(@, tables)]
    ELSE [task EXCEPT !.stack =
            [SubSeq(@, 1, Len(@) - 1)
                EXCEPT ![Len(task.stack) - 1].resolvedTables = SetAddAll(@, tables)]]

\* extractTablesFromConnector(connector), the first step of a task that has
\* a connector: its parser references are what the task resolves (an
\* exception ends the task)
ExtractFirst(t) ==
    /\ tasks[t].phase = "extract"
    /\ \E extracted \in {ExtractTablesFromConnector(tasks[t].doc)} :
          tasks' = [tasks EXCEPT ![t] =
                      [@ EXCEPT !.phase = IF extracted.threw THEN "failed"
                                          ELSE "resolve",
                                !.extraction = extracted,
                                !.parserNames = extracted.parserReferences,
                                !.todo = extracted.parserReferences]]
    /\ UNCHANGED parserCache

\* resolveMultipleParsers: one iteration of `for (const parserName of
\* parserNames)`, up to the call this.resolveParser(parserName)
MultipleNext(t) ==
    /\ tasks[t].phase = "resolve"
    /\ tasks[t].stack = <<>>
    /\ tasks[t].todo # <<>>
    /\ tasks' = [tasks EXCEPT ![t] =
                    [@ EXCEPT !.stack = <<NewFrame(Head(tasks[t].todo), 0)>>,
                              !.visited =
                                  FreshVisited(VisitedSeenBy_Shared(tasks, t),
                                               tasks[t].visited),
                              !.todo = Tail(@),
                              !.beside = @ \/ \E u \in DOMAIN tasks \ {t} :
                                                  tasks[u].stack # <<>>]]
    /\ UNCHANGED parserCache

\* resolveParser from its first line to the start of the for loop
NestedEnter(t) ==
    /\ tasks[t].phase = "resolve"
    /\ tasks[t].stack # <<>>
    /\ TopOf(tasks[t]).pc = "entry"
    /\ LET top == TopOf(tasks[t])
           entered == [tasks[t] EXCEPT !.visited = @ \cup {top.name}]
       IN  tasks' = [tasks EXCEPT ![t] =
              IF ShouldStop(top.name, VisitedSeenBy(tasks, t), top.depth)
              THEN NestedReturns(tasks[t], <<>>)
              ELSE IF top.name \notin DOMAIN parserCache
              THEN NestedReturns(entered, <<>>)
              ELSE [entered EXCEPT !.stack[Len(tasks[t].stack)] =
                      [top EXCEPT !.pc = "loop",
                                  !.todo = parserCache[top.name].parserReferences,
                                  !.resolvedTables =
                                      SetAddAll(<<>>, parserCache[top.name].tables)]]]
    /\ UNCHANGED parserCache

\* One iteration of the for loop of resolveParser: the nested call is made
NestedCall(t) ==
    /\ tasks[t].phase = "resolve"
    /\ tasks[t].stack # <<>>
    /\ TopOf(tasks[t]).pc = "loop"
    /\ TopOf(tasks[t]).todo # <<>>
    /\ LET top == TopOf(tasks[t])
       IN  tasks' = [tasks EXCEPT ![t].stack =
              Append([@ EXCEPT ![Len(@)].todo = Tail(top.todo)],
                     NewFrame(Head(top.todo), NestedDepth(top.depth)))]
    /\ UNCHANGED parserCache

\* resolvedTables.add(table) on the tables Set of the caller's catalog entry
CacheAfterAdd_IntoEntry(cache, stack, tables) ==
    IF Len(stack) >= 2
    THEN [cache EXCEPT ![stack[Len(stack) - 1].name].tables = SetAddAll(@, tables)]
    ELSE cache

\* The catalog after nestedTables.forEach((table) => resolvedTables.add(
\* table)) in the caller at stack[Len(stack) - 1]: resolvedTables is a Set
\* made by the call (const resolvedTables = new Set<string>()), into which
\* the entry's tables were copied, so the entry is not touched
CacheAfterAdd(cache, stack, tables) == cache

\* The for loop of resolveParser is over: return resolvedTables, which the
\* caller adds to its own
NestedReturn(t) ==
    /\ tasks[t].phase = "resolve"
    /\ tasks[t].stack # <<>>
    /\ TopOf(tasks[t]).pc = "loop"
    /\ TopOf(tasks[t]).todo = <<>>
    /\ tasks' = [tasks EXCEPT ![t] =
                    NestedReturns(tasks[t], TopOf(tasks[t]).resolvedTables)]
    /\ parserCache' = CacheAfterAdd(parserCache, tasks[t].stack,
                                    TopOf(tasks[t]).resolvedTables)

\* resolveMultipleParsers returns allTables
MultipleReturn(t) ==
    /\ tasks[t].phase = "resolve"
    /\ tasks[t].stack = <<>>
    /\ tasks[t].todo = <<>>
    /\ tasks' = [tasks EXCEPT ![t] =
                    [@ EXCEPT !.phase = "done", !.result = tasks[t].allTables]]
    /\ UNCHANGED parserCache

-----------------------------------------------------------------------------
(* tools/index.ts: the analysis cache of the tool layer                      *)

\* An AnalysisResult, as far as the cache goes: where it came from (the
\* pre-built index, or the analyze() run that the call numbered `run`
\* started) and its metadata.repositoryCommit.  NoResult is null.
NoResult == [source |-> "none", run |-> 0, repositoryCommit |-> ""]
IndexResult == [source |-> "index", run |-> 0, repositoryCommit |-> "indexed"]
AnalysisResult(run) == [source |-> "analysis", run |-> run, repositoryCommit |-> ""]

\* github.getLatestCommitSha()
LatestCommitSha == "head"

\* formatAnalysisResult: the summary of the result, or the result itself
FormatAnalysisResult(result, format) ==
    IF format = "summary"
    THEN [summary |-> [of |-> <<result.source, result.run>>,
                       repositoryCommit |-> result.repositoryCommit]]
    ELSE result

\* analyzeSolutionsTool.execute up to `Running fresh analysis`: the index
\* branch is taken when !args.force_refresh && !cachedAnalysisResult &&
\* isDefaultRepo and the index is there; every other call runs an analysis
StartsAnalysis(args, cached, index) ==
    ~(~args.force_refresh /\ cached = NoResult /\ args.defaultRepo
        /\ index # NoResult)

Call(tool, args, phase, answer) ==
    [tool |-> tool, args |-> args, phase |-> phase, answer |-> answer,
     found |-> cachedAnalysisResult]

\* analyze_solutions is called with args: answered at once, or a fresh
\* analysis is started (await analyzer.analyze())
AnalyzeSolutionsCall(args) ==
    /\ IF StartsAnalysis(args, cachedAnalysisResult, preBuiltIndex)
       THEN /\ calls' = Append(calls, Call("analyze_solutions", args,
                                           "analyzing", NoResult))
            /\ UNCHANGED cachedAnalysisResult
       ELSE /\ cachedAnalysisResult' = preBuiltIndex
            /\ calls' = Append(calls,
                    Call("analyze_solutions", args, "done",
                         FormatAnalysisResult(preBuiltIndex, args.format)))
    /\ UNCHANGED <<cacheCommitHash, preBuiltIndex>>

\* another tool is called: ensureAnalysis() calls analyze_solutions with {}
\* if nothing is cached, and the tool then reads cachedAnalysisResult
EnsureAnalysisCall(args) ==
    /\ ~args.force_refresh /\ args.defaultRepo /\ args.format = "json"
    /\ IF cachedAnalysisResult # NoResult
       THEN /\ calls' = Append(calls, Call("get_connector_tables", args, "done",
                                           cachedAnalysisResult))
            /\ UNCHANGED cachedAnalysisResult
       ELSE IF StartsAnalysis(args, cachedAnalysisResult, preBuiltIndex)
       THEN /\ calls' = Append(calls, Call("get_connector_tables", args,
                                           "analyzing", NoResult))
            /\ UNCHANGED cachedAnalysisResult
       ELSE /\ cachedAnalysisResult' = preBuiltIndex
            /\ calls' = Append(calls, Call("get_connector_tables", args, "done",
                                           preBuiltIndex))
    /\ UNCHANGED <<cacheCommitHash, preBuiltIndex>>

\* analyzer.analyze() of the call numbered c returns; for the default
\* repository the commit is fetched next, otherwise the call returns
AnalysisReturns(c) ==
    /\ calls[c].phase = "analyzing"
    /\ calls' = [calls EXCEPT ![c] =
          IF calls[c].args.defaultRepo
          THEN [@ EXCEPT !.phase = "commit"]
          ELSE [@ EXCEPT !.phase = "done",
                         !.answer = FormatAnalysisResult(AnalysisResult(c),
                                                         calls[c].args.format)]]
    /\ UNCHANGED <<cachedAnalysisResult, cacheCommitHash, preBuiltIndex>>

\* getLatestCommitSha() returns: the result is cached with its commit, and
\* the call returns (a tool that went through ensureAnalysis reads the cache)
CacheUpdated(c) ==
    /\ calls[c].phase = "commit"
    /\ \E result \in {[AnalysisResult(c) EXCEPT
                            !.repositoryCommit = LatestCommitSha]} :
          /\ cachedAnalysisResult' = result
          /\ cacheCommitHash' = LatestCommitSha
          /\ calls' = [calls EXCEPT ![c] =
                [@ EXCEPT !.phase = "done",
                          !.answer = FormatAnalysisResult(result,
                                                          calls[c].args.format)]]
    /\ UNCHANGED preBuiltIndex

-----------------------------------------------------------------------------
(* Scanner harness: the queries handed to extractTablesFromQuery            *)

MaxFrags == 3

QueryFrags ==
    { "Syslog", "syslogs", "Foo_CL", " ", "|", " // ", "\n",
      "https://e.c/p", "| where ", "let" }

ExampleQueries ==
    { "SecurityEvent | where Computer == 'X' | project Computer",
      "// comment\nSyslog",
      "https://example.com/p // Syslog",
      "[variables('tbl')]",
      "[variables('bad')]",
      "[variables('unbound')]",
      "let foo = Syslog" }

RECURSIVE Concats(_)
Concats(n) ==
    IF n = 0 THEN {""}
    ELSE LET shorter == Concats(n - 1)
         IN  shorter \cup {s \o f : s \in shorter, f \in QueryFrags}

Queries == Concats(MaxFrags) \cup ExampleQueries

\* the bindings of the scans: a table name, and a value that is no name
ScanBindings ==
    Variables(<< <<"tbl", "Bound_CL">>, <<"bad", "9 not a name">> >>)

ResolveIdle ==
    /\ parserCache = EmptyMap
    /\ startName = 0
    /\ visited = {}
    /\ rstack = <<>>
    /\ rresult = <<>>
    /\ rstatus = "idle"
    /\ expansions = <<>>
    /\ cutoffs = <<>>

ExtractIdle ==
    connector = JNull /\ extraction = <<>> /\ ephase = "idle" /\ priority = JNull

IdlePc == [phase |-> "idle", solutions |-> <<>>, solutionName |-> "",
           metadataName |-> "", parserFiles |-> <<>>, connectorFiles |-> <<>>,
           connectorId |-> "", extraction |-> <<>>, connectors |-> <<>>,
           returned |-> <<>>]

LoaderIdle ==
    /\ repo = [tree |-> <<>>, files |-> EmptyMap]
    /\ mappings = <<>>
    /\ issues = <<>>
    /\ tableOccurrences = <<>>
    /\ apc = IdlePc
    /\ analysed = <<>>
    /\ apc2 = IdlePc
    /\ parserCache2 = EmptyMap

TasksIdle == tasks = <<>>

ToolsIdle ==
    /\ cachedAnalysisResult = NoResult
    /\ cacheCommitHash = ""
    /\ preBuiltIndex = NoResult
    /\ calls = <<>>

ScanIdle == query = "" /\ scanned = <<>> /\ sphase = "idle"
ClassIdle == cname = "" /\ verdict = <<>> /\ cphase = "idle"

InitScan ==
    /\ query \in Queries
    /\ scanned = <<>>
    /\ sphase = "input"
    /\ ClassIdle
    /\ ResolveIdle
    /\ ExtractIdle
    /\ LoaderIdle
    /\ TasksIdle
    /\ ToolsIdle

Scan ==
    /\ sphase = "input"
    /\ scanned' = ExtractTablesFromQuery(JStr(query), ScanBindings)
    /\ sphase' = "scanned"
    /\ UNCHANGED <<query, classVars, resolveVars, extractVars, loaderVars, secondRun, tasks, toolVars>>

NextScan == Scan

SpecScan == InitScan /\ [][NextScan]_vars

-----------------------------------------------------------------------------
(* Classifier harness: the identifiers handed to the two classifiers        *)

MaxNameParts == 3

NameParts ==
    { "Foo", "_CL", "_", "Logs", "Data", "AAD", "Azure", "Network",
      "Event", "Syslog" }

RECURSIVE NameConcats(_)
NameConcats(n) ==
    IF n = 0 THEN {""}
    ELSE LET shorter == NameConcats(n - 1)
         IN  shorter \cup {s \o f : s \in shorter, f \in NameParts}

Names == (NameConcats(MaxNameParts) \ {""}) \cup STANDARD_TABLES

InitClassify ==
    /\ cname \in Names
    /\ verdict = <<>>
    /\ cphase = "input"
    /\ ScanIdle
    /\ ResolveIdle
    /\ ExtractIdle
    /\ LoaderIdle
    /\ TasksIdle
    /\ ToolsIdle

Classify ==
    /\ cphase = "input"
    /\ verdict' = [extractor |-> IsLikelyParser(cname),
                   catalog |-> ResolverIsLikelyParser(cname)]
    /\ cphase' = "classified"
    /\ UNCHANGED <<cname, scanVars, resolveVars, extractVars, loaderVars, secondRun, tasks, toolVars>>

NextClassify == Classify

SpecClassify == InitClassify /\ [][NextClassify]_vars

-----------------------------------------------------------------------------
(* Resolver harness: the catalogs and start names of resolveParser          *)

NumNames == 7

ParserNames == 1..NumNames

\* The direct table of parser p: every parser has a table of its own
TableOf(p) == <<"table", p>>

\* Parsers 1..defined are in the catalog.  Parser p references p + 1 (the
\* last one references a name the catalog does not have, unless it is
\* NumNames); on top of this chain parser `from` references `to`: before
\* its chain reference ("first"), after it ("last") or instead of it ("only").
ChainRefs(p) == IF p < NumNames THEN <<p + 1>> ELSE <<>>

CatalogRefs(p, mode, from, to) ==
    IF mode = "none" \/ p # from THEN ChainRefs(p)
    ELSE IF mode = "only" THEN <<to>>
    ELSE IF mode = "first" THEN SetAddAll(<<to>>, ChainRefs(p))
    ELSE SetAddAll(ChainRefs(p), <<to>>)

Catalog(defined, mode, from, to) ==
    [p \in 1..defined |->
        ParserInfo(p, <<TableOf(p)>>, CatalogRefs(p, mode, from, to))]

Catalogs ==
    {Catalog(defined, "none", 1, 1) : defined \in ParserNames}
    \cup {Catalog(defined, mode, from, to) :
            defined \in ParserNames, mode \in {"first", "last", "only"},
            from \in ParserNames, to \in ParserNames}

InitResolve ==
    /\ parserCache \in Catalogs
    /\ startName \in ParserNames
    /\ visited = {}
    /\ rstack = <<NewFrame(startName, 0)>>
    /\ rresult = <<>>
    /\ rstatus = "running"
    /\ expansions = <<>>
    /\ cutoffs = <<>>
    /\ ScanIdle
    /\ ClassIdle
    /\ ExtractIdle
    /\ LoaderIdle
    /\ TasksIdle
    /\ ToolsIdle

NextResolve ==
    \/ REnter /\ UNCHANGED <<scanVars, classVars, extractVars, loaderVars, secondRun, tasks, toolVars>>
    \/ RCall /\ UNCHANGED <<scanVars, classVars, extractVars, loaderVars, secondRun, tasks, toolVars>>
    \/ RReturn /\ UNCHANGED <<scanVars, classVars, extractVars, loaderVars, secondRun, tasks, toolVars>>

SpecResolve == InitResolve /\ [][NextResolve]_vars

\* The event loop runs a pending continuation: a call that can take a step
\* takes it.
FairSpecResolve == SpecResolve /\ WF_vars(NextResolve)

-----------------------------------------------------------------------------
(* Extractor harness: the connector documents                               *)

MaxGraphQueries == 2

ConnectorQueries == {"Syslog", "Foo_CL | take 5", "MyParser\n| where Foo_CL"}

RECURSIVE QueryLists(_)
QueryLists(n) ==
    IF n = 0 THEN {<<>>}
    ELSE LET shorter == QueryLists(n - 1)
         IN  shorter \cup {Append(l, q) : l \in shorter, q \in ConnectorQueries}

\* [{<subfield>: q}, ...]
QueryObjects(queries, subfield) ==
    JArr([i \in 1..Len(queries) |-> JObj(<< <<subfield, JStr(queries[i])>> >>)])

\* the entry <<key, value>> if the value is given, nothing otherwise
Entry(key, given, value) == IF given THEN << <<key, value>> >> ELSE <<>>

CriteriaChoices ==
    { <<>>,
      <<JArr(<<JStr("Foo_CL"), JOther, JStr("Bar_CL | take 1")>>)>>,
      <<JStr("MyParser"), JStr("Bar_CL")>> }

TableIdChoices == {"", "Foo_CL", "IdParser"}

DataTypeChoices == {<<>>, <<"Foo_CL | take 5">>}

\* A connector document: the query-bearing fields, the root `variables`
\* object and a `variables` object nested under `properties`.
ConnectorDoc(graph, sample, dataType, criteria, rootId, nestedId) ==
    JObj(   << <<"id", JStr("c1")>> >>
         \o Entry("variables", rootId # "",
                  JObj(<< <<"logAnalyticsTableId", JStr(rootId)>>,
                          <<"apiVersion", JOther>> >>))
         \o Entry("graphQueries", graph # <<>>, QueryObjects(graph, "baseQuery"))
         \o Entry("sampleQueries", sample # <<>>, QueryObjects(sample, "query"))
         \o Entry("dataTypes", dataType # <<>>,
                  QueryObjects(dataType, "lastDataReceivedQuery"))
         \o Entry("connectivityCriterias", criteria # <<>>,
                  JArr([i \in 1..Len(criteria) |->
                           JObj(<< <<"type", JStr("IsConnectedQuery")>>,
                                   <<"value", criteria[i]>> >>)]))
         \o Entry("properties", nestedId # "",
                  JObj(<< <<"variables",
                            JObj(<< <<"logAnalyticsTableId", JStr(nestedId)>> >>)>> >>)))

\* Documents the tolerant parser accepts that are no well-formed connector
MalformedDocs ==
    { JOther,
      JArr(<< JObj(<< <<"variables",
                        JObj(<< <<"logAnalyticsTableId", JStr("Foo_CL")>> >>)>> >>) >>),
      JObj(<< <<"graphQueries", JObj(<< <<"baseQuery", JStr("Syslog")>> >>)>> >>),
      JObj(<< <<"sampleQueries", JArr(<< JObj(<< <<"query", JStr("Syslog")>> >>),
                                         JNull >>)>> >>),
      JObj(<< <<"graphQueries", JArr(<< JStr("Syslog"),
                                        JObj(<< <<"baseQuery", JOther>> >>),
                                        JObj(<< <<"baseQuery", JStr("")>> >>) >>)>> >>) }

\* A document with `variables` objects at several depths: under
\* properties, under properties.inner, and under extra, which comes last
NestedVariablesDoc ==
    JObj(<< <<"properties",
              JObj(<< <<"variables",
                        JObj(<< <<"logAnalyticsTableId", JStr("First_CL")>>,
                                <<"workspace", JStr("ws")>>,
                                <<"retention", JOther>> >>)>>,
                      <<"inner",
                        JObj(<< <<"variables",
                                  JObj(<< <<"logAnalyticsTableId",
                                            JStr("Deep_CL")>> >>)>> >>)>> >>)>>,
            <<"extra",
              JObj(<< <<"variables",
                        JObj(<< <<"logAnalyticsTableId", JStr("Last_CL")>> >>)>> >>)>> >>)

ConnectorDocs ==
    { ConnectorDoc(graph, sample, dataType, criteria, rootId, nestedId) :
        graph \in QueryLists(MaxGraphQueries),
        sample \in QueryLists(1),
        dataType \in DataTypeChoices,
        criteria \in CriteriaChoices,
        rootId \in TableIdChoices,
        nestedId \in {"", "Foo_CL"} }
    \cup MalformedDocs \cup {NestedVariablesDoc}

InitExtract ==
    /\ connector \in ConnectorDocs
    /\ extraction = <<>>
    /\ ephase = "input"
    /\ priority = JNull
    /\ ScanIdle
    /\ ClassIdle
    /\ ResolveIdle
    /\ LoaderIdle
    /\ TasksIdle
    /\ ToolsIdle

Extract ==
    /\ ephase = "input"
    /\ extraction' = ExtractTablesFromConnector(connector)
    /\ ephase' = "extracted"
    /\ UNCHANGED <<connector, priority, scanVars, classVars, resolveVars, loaderVars,
                   secondRun, tasks, toolVars>>

NextExtract == Extract

SpecExtract == InitExtract /\ [][NextExtract]_vars

\* The tables handed to resolveTablePriority: up to MaxTables names, none
\* twice, in every order, each with the method of its position
MaxTables == 3

PriorityNames ==
    {"Syslog", "Events", "Foo_CL", "Bar_CL", "ASIMDns", "AsimWeb", "ASimDns"}

RECURSIVE TableMaps(_)
TableMaps(n) ==
    IF n = 0 THEN {<<>>}
    ELSE LET shorter == TableMaps(n - 1)
         IN  shorter \cup
             {Append(t, <<name, "method" \o ToString(Len(t) + 1)>>) :
                 t \in shorter, name \in PriorityNames}

InitPriority ==
    /\ connector = JNull
    /\ \E tables \in {t \in TableMaps(MaxTables) :
                         \A i, j \in DOMAIN t : t[i][1] = t[j][1] => i = j} :
          extraction = [tables |-> tables, parserReferences |-> <<>>,
                        threw |-> FALSE]
    /\ ephase = "extracted"
    /\ priority = JNull
    /\ ScanIdle
    /\ ClassIdle
    /\ ResolveIdle
    /\ LoaderIdle
    /\ TasksIdle
    /\ ToolsIdle

\* resolveTablePriority(tables) is called on the tables of the extraction
Prioritize ==
    /\ ephase = "extracted"
    /\ priority' = ResolveTablePriority(extraction.tables)
    /\ ephase' = "prioritized"
    /\ UNCHANGED <<connector, extraction, scanVars, classVars, resolveVars,
                   loaderVars, secondRun, tasks, toolVars>>

NextPriority == Prioritize

SpecPriority == InitPriority /\ [][NextPriority]_vars

-----------------------------------------------------------------------------
(* Loader harness: the repositories                                         *)

MaxConnectors == 2

Blob(path) == [path |-> path, type |-> "blob"]
Tree(path) == [path |-> path, type |-> "tree"]

\* The connector definition files a solution may hold
DirectConnector ==
    Doc(JObj(<< <<"id", JStr("direct")>>,
                <<"graphQueries", QueryObjects(<<"Syslog">>, "baseQuery")>> >>))

ParserConnector ==
    Doc(JObj(<< <<"id", JStr("viaParser")>>,
                <<"sampleQueries", QueryObjects(<<"MyParser">>, "query")>> >>))

MixedConnector ==
    Doc(JObj(<< <<"id", JStr("mixed")>>,
                <<"variables",
                  JObj(<< <<"logAnalyticsTableId", JStr("CustomLog_CL")>> >>)>>,
                <<"graphQueries",
                  QueryObjects(<<"IdParser", "Syslog | take 5">>, "baseQuery")>> >>))

EmptyConnector == Doc(JObj(<< <<"title", JStr("no queries")>> >>))

ThrowingConnector ==
    Doc(JObj(<< <<"id", JStr("throws")>>,
                <<"graphQueries", JObj(<< <<"baseQuery", JStr("Syslog")>> >>)>> >>))

ConnectorPool ==
    {DirectConnector, ParserConnector, MixedConnector, EmptyConnector,
     ThrowingConnector, Invalid, Missing}

SecondSolutionPool == {DirectConnector, ParserConnector, Missing}

\* The parser files of the first solution
MyParserFile ==
    Doc(JObj(<< <<"FunctionName", JStr("MyParser")>>,
                <<"FunctionQuery", JStr("CustomLog_CL\n| where x > 1")>> >>))

IdParserFile ==
    Doc(JObj(<< <<"function",
                  JObj(<< <<"name", JStr("IdParser")>>,
                          <<"query", JStr("union MyParser, Other_CL")>> >>)>> >>))

RECURSIVE ContentLists(_)
ContentLists(n) ==
    IF n = 0 THEN {<<>>}
    ELSE LET shorter == ContentLists(n - 1)
         IN  shorter \cup {Append(l, c) : l \in shorter, c \in ConnectorPool}

ConnectorPath(solutionName, i) ==
    "Solutions/" \o solutionName \o "/Data Connectors/c" \o ToString(i) \o ".json"

\* A repository of two solutions: the first has metadata, two parser files
\* and one unreadable parser file; the second has neither metadata nor
\* parsers.
Repository(first, second) ==
    LET firstPaths == [i \in 1..Len(first) |-> ConnectorPath("SolA", i)]
        secondPaths == [i \in 1..Len(second) |-> ConnectorPath("SolB", i)]
        fixed == ( "Solutions/SolA/SolutionMetadata.json" :>
                       Doc(JObj(<< <<"name", JStr("Solution A")>> >>)) )
                 @@ ( "Solutions/SolA/Parsers/MyParser.yaml" :> MyParserFile )
                 @@ ( "Solutions/SolA/Parsers/IdParser.yml" :> IdParserFile )
                 @@ ( "Solutions/SolA/Parsers/Broken.json" :> Invalid )
    IN  [tree |->
            << Tree("Solutions"), Tree("Solutions/SolA"),
               Tree("Solutions/SolA/Data Connectors") >>
            \o [i \in 1..Len(first) |-> Blob(firstPaths[i])]
            \o << Blob("Solutions/SolA/Data Connectors/readme.md"),
                  Tree("Solutions/SolA/Parsers"),
                  Blob("Solutions/SolA/Parsers/MyParser.yaml"),
                  Blob("Solutions/SolA/Parsers/IdParser.yml"),
                  Blob("Solutions/SolA/Parsers/Broken.json"),
                  Blob("Solutions/SolA/Parsers/notes.txt"),
                  Blob("Solutions/SolA/SolutionMetadata.json"),
                  Tree("Solutions/SolB"),
                  Tree("Solutions/SolB/Data Connectors") >>
            \o [i \in 1..Len(second) |-> Blob(secondPaths[i])],
         files |->
            [p \in Range(firstPaths) |->
                first[CHOOSE i \in 1..Len(first) : firstPaths[i] = p]]
            @@ [p \in Range(secondPaths) |->
                second[CHOOSE i \in 1..Len(second) : secondPaths[i] = p]]
            @@ fixed]

Repositories ==
    { Repository(first, second) :
        first \in ContentLists(MaxConnectors),
        second \in {<<>>} \cup {<<c>> : c \in SecondSolutionPool} }

resolveRest == <<startName, visited, rstack, rresult, rstatus, expansions, cutoffs>>

InitAnalyze ==
    /\ repo \in Repositories
    /\ mappings = <<>>
    /\ issues = <<>>
    /\ tableOccurrences = <<>>
    /\ apc = [IdlePc EXCEPT !.phase = "start"]
    /\ analysed = <<>>
    /\ apc2 = IdlePc
    /\ parserCache2 = EmptyMap
    /\ TasksIdle
    /\ ScanIdle
    /\ ClassIdle
    /\ ResolveIdle
    /\ ExtractIdle
    /\ ToolsIdle

otherThanAnalyze ==
    <<scanVars, classVars, extractVars, resolveRest, secondRun, tasks, toolVars>>

NextAnalyze ==
    \/ Analyze(apc, apc', parserCache, parserCache') /\ UNCHANGED otherThanAnalyze
    \/ AnalyzeSolution(apc, apc', parserCache, parserCache')
          /\ UNCHANGED otherThanAnalyze
    \/ LoadParser(apc, apc', parserCache, parserCache') /\ UNCHANGED otherThanAnalyze
    \/ ParsersLoaded(apc, apc', parserCache, parserCache')
          /\ UNCHANGED otherThanAnalyze
    \/ AnalyzeConnector(apc, apc', parserCache, parserCache')
          /\ UNCHANGED otherThanAnalyze
    \/ ResolveConnector(apc, apc', parserCache, parserCache')
          /\ UNCHANGED otherThanAnalyze
    \/ SolutionDone(apc, apc', parserCache, parserCache')
          /\ UNCHANGED otherThanAnalyze
    \/ AnalyzeReturn(apc, apc', parserCache, parserCache')
          /\ UNCHANGED otherThanAnalyze

SpecAnalyze == InitAnalyze /\ [][NextAnalyze]_vars

\* The solution names handed to SingleSolutionLoader.analyzeSolution: the two
\* solutions of the repository and one it does not have
SingleSolutionNames == {"SolA", "SolB", "SolC"}

\* Either loader is started on a repository: SolutionLoader.analyze(), or
\* SingleSolutionLoader.analyzeSolution(solutionName)
InitOrdering ==
    /\ repo \in Repositories
    /\ mappings = <<>>
    /\ issues = <<>>
    /\ tableOccurrences = <<>>
    /\ apc \in {[IdlePc EXCEPT !.phase = "start"]}
                \cup {[IdlePc EXCEPT !.phase = "singleStart", !.solutionName = n] :
                        n \in SingleSolutionNames}
    /\ analysed = <<>>
    /\ apc2 = IdlePc
    /\ parserCache2 = EmptyMap
    /\ TasksIdle
    /\ ScanIdle
    /\ ClassIdle
    /\ ResolveIdle
    /\ ExtractIdle
    /\ ToolsIdle

NextSingle ==
    \/ SingleAnalyzeSolution(apc, apc', parserCache, parserCache')
          /\ UNCHANGED otherThanAnalyze
    \/ SingleLoadParser(apc, apc', parserCache, parserCache')
          /\ UNCHANGED otherThanAnalyze
    \/ SingleParsersLoaded(apc, apc', parserCache, parserCache')
          /\ UNCHANGED otherThanAnalyze
    \/ SingleAnalyzeConnector(apc, apc', parserCache, parserCache')
          /\ UNCHANGED otherThanAnalyze
    \/ SingleResolveConnector(apc, apc', parserCache, parserCache')
          /\ UNCHANGED otherThanAnalyze
    \/ SingleReturn(apc, apc', parserCache, parserCache')
          /\ UNCHANGED otherThanAnalyze

NextOrdering == NextAnalyze \/ NextSingle

SpecOrdering == InitOrdering /\ [][NextOrdering]_vars

\* Two analyze() calls on one SolutionLoader: the second is made at any
\* moment of the first, or after it.  The repositories are a few of those of
\* the single run.
OverlapRepositories ==
    { Repository(first, second) :
        first \in {<<DirectConnector>>, <<MixedConnector>>,
                   <<ParserConnector, DirectConnector>>,
                   <<Invalid, EmptyConnector>>},
        second \in {<<>>, <<DirectConnector>>} }

InitOverlap ==
    /\ repo \in OverlapRepositories
    /\ mappings = <<>>
    /\ issues = <<>>
    /\ tableOccurrences = <<>>
    /\ apc = [IdlePc EXCEPT !.phase = "start"]
    /\ analysed = <<>>
    /\ apc2 = [IdlePc EXCEPT !.phase = "start"]
    /\ parserCache2 = EmptyMap
    /\ TasksIdle
    /\ ScanIdle
    /\ ClassIdle
    /\ ResolveIdle
    /\ ExtractIdle
    /\ ToolsIdle

otherThanSecond ==
    <<scanVars, classVars, extractVars, resolveRest, apc, parserCache, tasks,
      toolVars>>

NextSecond ==
    \/ Analyze(apc2, apc2', parserCache2, parserCache2') /\ UNCHANGED otherThanSecond
    \/ AnalyzeSolution(apc2, apc2', parserCache2, parserCache2')
          /\ UNCHANGED otherThanSecond
    \/ LoadParser(apc2, apc2', parserCache2, parserCache2')
          /\ UNCHANGED otherThanSecond
    \/ ParsersLoaded(apc2, apc2', parserCache2, parserCache2')
          /\ UNCHANGED otherThanSecond
    \/ AnalyzeConnector(apc2, apc2', parserCache2, parserCache2')
          /\ UNCHANGED otherThanSecond
    \/ ResolveConnector(apc2, apc2', parserCache2, parserCache2')
          /\ UNCHANGED otherThanSecond
    \/ SolutionDone(apc2, apc2', parserCache2, parserCache2')
          /\ UNCHANGED otherThanSecond
    \/ AnalyzeReturn(apc2, apc2', parserCache2, parserCache2')
          /\ UNCHANGED otherThanSecond

NextOverlap == NextAnalyze \/ NextSecond

SpecOverlap == InitOverlap /\ [][NextOverlap]_vars

\* Two analyze() calls on one SolutionLoader, the second made after the
\* first has returned (await loader.analyze(); await loader.analyze()).
SequentialRepositories ==
    OverlapRepositories \cup
        { Repository(<<DirectConnector, Invalid>>, <<DirectConnector>>),
          Repository(<<MixedConnector, Missing>>, <<>>) }

InitSequential ==
    /\ repo \in SequentialRepositories
    /\ mappings = <<>>
    /\ issues = <<>>
    /\ tableOccurrences = <<>>
    /\ apc = [IdlePc EXCEPT !.phase = "start"]
    /\ analysed = <<>>
    /\ apc2 = [IdlePc EXCEPT !.phase = "start"]
    /\ parserCache2 = EmptyMap
    /\ TasksIdle
    /\ ScanIdle
    /\ ClassIdle
    /\ ResolveIdle
    /\ ExtractIdle
    /\ ToolsIdle

NextSequential ==
    \/ NextAnalyze
    \/ apc.phase = "done" /\ NextSecond

SpecSequential == InitSequential /\ [][NextSequential]_vars

-----------------------------------------------------------------------------
(* Task harness: resolveMultipleParsers calls, alone and side by side        *)

\* Chains with and without an undefined last reference, and with a second
\* reference back to the first parser
MultiCatalogs ==
    {Catalog(defined, mode, from, 1) :
        defined \in {NumNames - 1, NumNames},
        mode \in {"none", "last"}, from \in {2, 3}}

StartNames == {1, 2, NumNames - 1}

\* parserNames is a Set: no name twice
StartLists ==
    {<<>>} \cup {<<a>> : a \in StartNames}
    \cup {<<p[1], p[2]>> : p \in {q \in StartNames \X StartNames : q[1] # q[2]}}

\* the start names of callers that run side by side
ConcurrentLists == {<<1>>, <<NumNames - 1>>, <<2, 1>>, <<1, NumNames - 1>>}

ResolveCallIdle ==
    /\ startName = 0
    /\ visited = {}
    /\ rstack = <<>>
    /\ rresult = <<>>
    /\ rstatus = "idle"
    /\ expansions = <<>>
    /\ cutoffs = <<>>

otherThanTasks ==
    <<scanVars, classVars, extractVars, resolveRest, loaderVars, secondRun,
      toolVars>>

\* one resolveMultipleParsers call
InitMultiple ==
    /\ parserCache \in MultiCatalogs
    /\ \E names \in StartLists : tasks = <<Task(JNull, names, "resolve")>>
    /\ ResolveCallIdle
    /\ ScanIdle
    /\ ClassIdle
    /\ ExtractIdle
    /\ repo = [tree |-> <<>>, files |-> EmptyMap]
    /\ mappings = <<>>
    /\ issues = <<>>
    /\ tableOccurrences = <<>>
    /\ apc = IdlePc
    /\ analysed = <<>>
    /\ apc2 = IdlePc
    /\ parserCache2 = EmptyMap
    /\ ToolsIdle

NextMultiple ==
    \/ \E t \in DOMAIN tasks : MultipleNext(t) /\ UNCHANGED otherThanTasks
    \/ \E t \in DOMAIN tasks : NestedEnter(t) /\ UNCHANGED otherThanTasks
    \/ \E t \in DOMAIN tasks : NestedCall(t) /\ UNCHANGED otherThanTasks
    \/ \E t \in DOMAIN tasks : NestedReturn(t) /\ UNCHANGED otherThanTasks
    \/ \E t \in DOMAIN tasks : MultipleReturn(t) /\ UNCHANGED otherThanTasks

SpecMultiple == InitMultiple /\ [][NextMultiple]_vars

\* two callers' resolveMultipleParsers calls on one resolver, interleaved at
\* their awaits
InitConcurrent ==
    /\ parserCache \in MultiCatalogs
    /\ \E first \in ConcurrentLists, second \in ConcurrentLists :
          tasks = <<Task(JNull, first, "resolve"), Task(JNull, second, "resolve")>>
    /\ ResolveCallIdle
    /\ ScanIdle
    /\ ClassIdle
    /\ ExtractIdle
    /\ repo = [tree |-> <<>>, files |-> EmptyMap]
    /\ mappings = <<>>
    /\ issues = <<>>
    /\ tableOccurrences = <<>>
    /\ apc = IdlePc
    /\ analysed = <<>>
    /\ apc2 = IdlePc
    /\ parserCache2 = EmptyMap
    /\ ToolsIdle

SpecConcurrent == InitConcurrent /\ [][NextMultiple]_vars

\* The same connector document is extracted and resolved twice against one
\* catalog, the two runs one after the other or interleaved at their
\* awaits.  The catalog is the one loaded for the first solution of the
\* repositories, or an empty one.
TwiceDocuments ==
    {c.doc : c \in {DirectConnector, ParserConnector, MixedConnector,
                    EmptyConnector, ThrowingConnector}}

TwiceCatalogs ==
    {EmptyMap,
     LoadParsers(EmptyMap, Repository(<<>>, <<>>).files,
                 ParserFiles(Repository(<<>>, <<>>).tree, "Solutions/SolA"))}

InitTwice ==
    /\ parserCache \in TwiceCatalogs
    /\ \E doc \in TwiceDocuments :
          tasks = <<Task(doc, <<>>, "extract"), Task(doc, <<>>, "extract")>>
    /\ ResolveCallIdle
    /\ ScanIdle
    /\ ClassIdle
    /\ ExtractIdle
    /\ repo = [tree |-> <<>>, files |-> EmptyMap]
    /\ mappings = <<>>
    /\ issues = <<>>
    /\ tableOccurrences = <<>>
    /\ apc = IdlePc
    /\ analysed = <<>>
    /\ apc2 = IdlePc
    /\ parserCache2 = EmptyMap
    /\ ToolsIdle

NextTwice ==
    \/ \E t \in DOMAIN tasks : ExtractFirst(t) /\ UNCHANGED otherThanTasks
    \/ NextMultiple

SpecTwice == InitTwice /\ [][NextTwice]_vars

-----------------------------------------------------------------------------
(* Catalog harness: the parser files of one solution                        *)

MaxParserFiles == 3

\* an ARM template with the saved function among its resources
ArmParserFile ==
    Doc(JObj(<< <<"resources",
                  JArr(<< JObj(<< <<"type", JStr("Microsoft.Resources/deployments")>> >>),
                          JObj(<< <<"properties",
                                    JObj(<< <<"savedQueryName", JStr("ArmParser")>>,
                                            <<"query", JStr("Syslog | take 1")>> >>)>> >>)
                       >>)>> >>))

\* parser files the load skips: no name, no query, `resources` that cannot
\* be iterated, an empty document
NoNameFile == Doc(JObj(<< <<"FunctionQuery", JStr("Syslog")>> >>))
NoQueryFile == Doc(JObj(<< <<"FunctionName", JStr("NoQuery")>> >>))
ThrowingParserFile ==
    Doc(JObj(<< <<"FunctionQuery", JStr("Syslog")>>,
                <<"resources", JObj(<< <<"name", JStr("r")>> >>)>> >>))
EmptyParserFile == Doc(JNull)

\* the files that give an entry, each with the name of its function
UsableParserFiles ==
    ( MyParserFile :> "MyParser" ) @@ ( IdParserFile :> "IdParser" )
    @@ ( ArmParserFile :> "ArmParser" )

SkippedParserFiles ==
    {Missing, Invalid, NoNameFile, NoQueryFile, ThrowingParserFile, EmptyParserFile}

ParserFilePool == DOMAIN UsableParserFiles \cup SkippedParserFiles

RECURSIVE ParserFileLists(_)
ParserFileLists(n) ==
    IF n = 0 THEN {<<>>}
    ELSE LET shorter == ParserFileLists(n - 1)
         IN  shorter \cup {Append(l, c) : l \in shorter, c \in ParserFilePool}

ParserPath(i) ==
    "Solutions/SolA/Parsers/p" \o ToString(i)
        \o (IF i % 3 = 0 THEN ".json" ELSE IF i % 3 = 1 THEN ".yaml" ELSE ".yml")

\* A solution whose Parsers directory holds the given files, in tree order
ParserRepository(contents) ==
    [tree |-> << Tree("Solutions"), Tree("Solutions/SolA"),
                 Tree("Solutions/SolA/Parsers") >>
              \o [i \in 1..Len(contents) |-> Blob(ParserPath(i))]
              \o << Blob("Solutions/SolA/Parsers/notes.txt") >>,
     files |-> [p \in {ParserPath(i) : i \in 1..Len(contents)} |->
                  contents[CHOOSE i \in 1..Len(contents) : ParserPath(i) = p]]]

\* loadParsers() of a new ParserResolver for the solution
InitLoad ==
    /\ repo \in {ParserRepository(contents) : contents \in ParserFileLists(MaxParserFiles)}
    /\ parserCache = EmptyMap
    /\ apc = [IdlePc EXCEPT !.phase = "parsers",
                            !.solutionName = "SolA",
                            !.parserFiles = ParserFiles(repo.tree, "Solutions/SolA")]
    /\ mappings = <<>>
    /\ issues = <<>>
    /\ tableOccurrences = <<>>
    /\ analysed = <<>>
    /\ apc2 = IdlePc
    /\ parserCache2 = EmptyMap
    /\ TasksIdle
    /\ ResolveCallIdle
    /\ ScanIdle
    /\ ClassIdle
    /\ ExtractIdle
    /\ ToolsIdle

NextLoad ==
    \/ LoadParser(apc, apc', parserCache, parserCache') /\ UNCHANGED otherThanAnalyze
    \/ ParsersLoaded(apc, apc', parserCache, parserCache')
          /\ UNCHANGED otherThanAnalyze

SpecLoad == InitLoad /\ [][NextLoad]_vars

-----------------------------------------------------------------------------
(* Tool harness: a session of tool calls                                     *)

MaxCalls == 3

ToolArgs ==
    [force_refresh : BOOLEAN, defaultRepo : BOOLEAN, format : {"json", "summary"}]

otherThanTools ==
    <<scanVars, classVars, extractVars, resolveVars, loaderVars, secondRun, tasks>>

\* The server has started: nothing is cached; the pre-built index is there
\* or not
InitTools ==
    /\ cachedAnalysisResult = NoResult
    /\ cacheCommitHash = ""
    /\ preBuiltIndex \in {NoResult, IndexResult}
    /\ calls = <<>>
    /\ ScanIdle
    /\ ClassIdle
    /\ ResolveIdle
    /\ ExtractIdle
    /\ LoaderIdle
    /\ TasksIdle

NextTools ==
    \/ \E args \in ToolArgs :
          Len(calls) < MaxCalls /\ AnalyzeSolutionsCall(args)
            /\ UNCHANGED otherThanTools
    \/ \E args \in ToolArgs :
          Len(calls) < MaxCalls /\ EnsureAnalysisCall(args)
            /\ UNCHANGED otherThanTools
    \/ \E c \in DOMAIN calls : AnalysisReturns(c) /\ UNCHANGED otherThanTools
    \/ \E c \in DOMAIN calls : CacheUpdated(c) /\ UNCHANGED otherThanTools

SpecTools == InitTools /\ [][NextTools]_vars

-----------------------------------------------------------------------------
(* Properties of the loader                                                 *)

\* the mappings emitted for the connector file at `path`, in order
RECURSIVE MappingsOf(_, _)
MappingsOf(ms, path) ==
    IF ms = <<>> THEN <<>>
    ELSE (IF Head(ms).connectorFile = path THEN <<Head(ms)>> ELSE <<>>)
         \o MappingsOf(Tail(ms), path)

\* the method strings the extractor records: variables.logAnalyticsTableId
\* or <field>.<index>.<subfield>
IsDirectMethod(method) ==
    \/ method = "variables.logAnalyticsTableId"
    \/ LET parts == Split(method, ".")
       IN  /\ Len(parts) = 3
           /\ parts[1] \in {"graphQueries", "sampleQueries", "dataTypes",
                            "connectivityCriterias"}
           /\ parts[2] # ""
           /\ \A c \in 1..Len(parts[2]) : CharAt(parts[2], c) \in DigitSet
           /\ parts[3] \in {"baseQuery", "query", "lastDataReceivedQuery", "value"}

\* C4: for every analysed connector the tables of its mappings are exactly
\* the directly detected tables together with the tables its parser
\* references resolve to, one mapping per table; a directly detected table
\* carries the method string the extractor recorded for it, and a table
\* carries `parser_resolution` exactly when it was reached through parser
\* resolution only.
C4_UnionAndMethod ==
    /\ \A h \in 1..Len(analysed) :
         LET direct == analysed[h].extraction.tables
             resolved == analysed[h].resolved
             emitted == MappingsOf(mappings, analysed[h].filePath)
         IN  /\ {emitted[i].tableName : i \in 1..Len(emitted)}
                    = Range(MapKeys(direct)) \cup Range(resolved)
             /\ \A i, j \in 1..Len(emitted) :
                    emitted[i].tableName = emitted[j].tableName => i = j
             /\ \A i \in 1..Len(emitted) :
                    LET m == emitted[i]
                    IN  /\ MapHas(direct, m.tableName) =>
                              /\ m.detectionMethod = MapGet(direct, m.tableName)
                              /\ IsDirectMethod(m.detectionMethod)
                        /\ (m.detectionMethod = "parser_resolution") <=>
                              (/\ m.tableName \in Range(resolved)
                               /\ ~MapHas(direct, m.tableName))
    /\ \A i \in 1..Len(mappings) :
         \E h \in 1..Len(analysed) : analysed[h].filePath = mappings[i].connectorFile

\* a connector was analysed that has a table detected directly only, a table
\* reached through a parser only, and a table reached both ways
C4_Witness ==
    \E h \in 1..Len(analysed) :
        LET direct == Range(MapKeys(analysed[h].extraction.tables))
            resolved == Range(analysed[h].resolved)
            emitted == MappingsOf(mappings, analysed[h].filePath)
        IN  /\ direct \ resolved # {}
            /\ resolved \ direct # {}
            /\ direct \cap resolved # {}
            /\ Len(emitted) = Cardinality(direct \cup resolved)

\* the connector files that produced a mapping for the table
ProducersOf(tableName) ==
    {mappings[i].connectorFile :
        i \in {j \in 1..Len(mappings) : mappings[j].tableName = tableName}}

\* C6: when the analysis has returned, a mapping is marked unique exactly
\* when one connector of the whole corpus produced its table.
C6_UniqueIffOneProducer ==
    apc.phase = "done" =>
        \A i \in 1..Len(mappings) :
            mappings[i].isUnique
                <=> (Cardinality(ProducersOf(mappings[i].tableName)) = 1)

\* the analysis has returned with a table of one connector and a table that
\* connectors of two solutions share
C6_Witness ==
    /\ apc.phase = "done"
    /\ \E i, j, k \in 1..Len(mappings) :
          /\ mappings[i].isUnique
          /\ ~mappings[j].isUnique
          /\ mappings[j].tableName = mappings[k].tableName
          /\ mappings[j].solution # mappings[k].solution


\* the issues of one type on record for the connector file at `path`
IssuesAbout(path, issueType) ==
    {i \in 1..Len(issues) :
        issues[i].filePath = path /\ issues[i].issueType = issueType}

\* an extraction with no direct table and at least one parser reference
ParserReferencesOnly(extracted) ==
    MapKeys(extracted.tables) = <<>> /\ extracted.parserReferences # <<>>

\* the run is between the extraction and the resolution of a connector that
\* has parser references only
AwaitingResolution ==
    apc.phase = "resolving" /\ ParserReferencesOnly(apc.extraction)

\* the table names of the mappings of the connector file at `path`
TablesMapped(path) ==
    {mappings[i].tableName :
        i \in {j \in 1..Len(mappings) : mappings[j].connectorFile = path}}

\* what holds of a connector with parser references only once its
\* references have been resolved: its tables are the resolved tables, and
\* parser_tables_only is on record for it exactly when there is none
ResolvedOutcome ==
    \A h \in 1..Len(analysed) :
        ParserReferencesOnly(analysed[h].extraction) =>
            /\ TablesMapped(analysed[h].filePath) = Range(analysed[h].resolved)
            /\ Cardinality(IssuesAbout(analysed[h].filePath, "parser_tables_only"))
                  = IF analysed[h].resolved = <<>> THEN 1 ELSE 0

\* an issue on record stays on record
IssuesOnlyGrow ==
    /\ Len(issues') >= Len(issues)
    /\ \A i \in 1..Len(issues) : issues'[i] = issues[i]

\* C11 as claimed: for a connector with no direct table and at least one
\* parser reference the initial extraction puts parser_tables_only on
\* record; after the resolution the tables of the connector are the resolved
\* tables and the issue is on record only when the resolution found none.
C11_RaisedThenCleared ==
    /\ AwaitingResolution =>
          IssuesAbout(Head(apc.connectorFiles), "parser_tables_only") # {}
    /\ ResolvedOutcome

\* C11 as amended: for a connector with no direct table and at least one
\* parser reference nothing is on record when the extraction is over; after
\* the resolution the tables of the connector are the resolved tables, and
\* parser_tables_only is put on record then, once, exactly when the
\* resolution found no table; no issue on record is ever removed.
C11_IssueOnlyWhenUnresolved ==
    /\ [](AwaitingResolution =>
            IssuesAbout(Head(apc.connectorFiles), "parser_tables_only") = {})
    /\ []ResolvedOutcome
    /\ [][IssuesOnlyGrow]_vars

\* C11 witness: the analysis has returned; one connector with parser
\* references only was resolved to a table and has no issue, another one
\* was resolved to nothing and has the issue.
C11_Witness ==
    /\ apc.phase = "done"
    /\ \E h, k \in 1..Len(analysed) :
          /\ ParserReferencesOnly(analysed[h].extraction)
          /\ analysed[h].resolved # <<>>
          /\ TablesMapped(analysed[h].filePath) = Range(analysed[h].resolved)
          /\ IssuesAbout(analysed[h].filePath, "parser_tables_only") = {}
          /\ ParserReferencesOnly(analysed[k].extraction)
          /\ analysed[k].resolved = <<>>
          /\ IssuesAbout(analysed[k].filePath, "parser_tables_only") # {}


\* every connector definition file of the repository, solution by solution
RECURSIVE ConnectorFilesOf(_, _)
ConnectorFilesOf(tree, solutions) ==
    IF solutions = <<>> THEN <<>>
    ELSE ConnectorFiles(tree, "Solutions/" \o Head(solutions))
         \o ConnectorFilesOf(tree, Tail(solutions))

AllConnectorFiles == Range(ConnectorFilesOf(repo.tree, SolutionNames(repo.tree)))

\* the connector files whose analysis came to its end, and those whose
\* analysis ended in a failure put on record
AnalysedFiles == {analysed[h].filePath : h \in 1..Len(analysed)}
FailedFiles == {p \in AllConnectorFiles : IssuesAbout(p, "json_parse_error") # {}}

\* C12: a connector whose document was extracted has the issue
\* no_table_definitions (once) if and only if the extraction found no table
\* and no parser reference; such a connector has no mapping; the issue is
\* about an extracted connector only, and it does not end the analysis:
\* when analyze() has returned, every connector file of the repository was
\* analysed or failed on record.
C12_NoTableDefinitions ==
    /\ \A h \in 1..Len(analysed) :
          LET path == analysed[h].filePath
              nothing == /\ MapKeys(analysed[h].extraction.tables) = <<>>
                         /\ analysed[h].extraction.parserReferences = <<>>
              reported == IssuesAbout(path, "no_table_definitions")
          IN  /\ (reported # {}) <=> nothing
              /\ Cardinality(reported) <= 1
              /\ nothing => TablesMapped(path) = {}
    /\ \A i \in 1..Len(issues) :
          issues[i].issueType = "no_table_definitions"
              => issues[i].filePath \in AnalysedFiles
    /\ apc.phase = "done" => AllConnectorFiles = AnalysedFiles \cup FailedFiles

\* C12 witness: the analysis has returned; the first connector of a solution
\* had neither tables nor parser references and was reported, and the
\* connector after it has mappings.
C12_Witness ==
    /\ apc.phase = "done"
    /\ \E h \in 1..(Len(analysed) - 1) :
          /\ IssuesAbout(analysed[h].filePath, "no_table_definitions") # {}
          /\ TablesMapped(analysed[h].filePath) = {}
          /\ TablesMapped(analysed[h + 1].filePath) # {}


\* the connector files of the repository whose analysis fails: the fetch
\* throws, the document does not parse, or the extraction throws
FailingConnectors == {Missing, Invalid, ThrowingConnector}
FailingFiles == {p \in AllConnectorFiles : ContentOf(repo.files, p) \in FailingConnectors}

\* every issue on record for the file at `path`
IssuesOfFile(path) == {i \in 1..Len(issues) : issues[i].filePath = path}

\* the step is the analyzeConnector call of a file whose analysis fails
AnalysesFailingFile ==
    /\ apc.phase = "connectors"
    /\ apc.connectorFiles # <<>>
    /\ Head(apc.connectorFiles) \in FailingFiles
    /\ apc' # apc

\* C16: the analyzeConnector call of a failing file adds one issue, about
\* that file, changes neither the mappings nor the table counts, and leaves
\* the run at the next connector file; a failing file never has a mapping or
\* a second issue, and when analyze() has returned every connector file was
\* analysed or, exactly if it is a failing file, has its one issue.
C16_FailureIsOneIssue ==
    /\ [][AnalysesFailingFile =>
            /\ issues' = Append(issues, issues'[Len(issues')])
            /\ issues'[Len(issues')].filePath = Head(apc.connectorFiles)
            /\ issues'[Len(issues')].issueType = "json_parse_error"
            /\ mappings' = mappings
            /\ tableOccurrences' = tableOccurrences
            /\ apc'.phase = "connectors"
            /\ apc'.connectorFiles = Tail(apc.connectorFiles)]_vars
    /\ [](\A p \in FailingFiles :
            /\ TablesMapped(p) = {}
            /\ Cardinality(IssuesOfFile(p)) <= 1)
    /\ [](apc.phase = "done" =>
            /\ \A p \in FailingFiles : Cardinality(IssuesOfFile(p)) = 1
            /\ FailedFiles = FailingFiles
            /\ AnalysedFiles = AllConnectorFiles \ FailingFiles)

\* C16 witness: the analysis has returned; the second connector file of the
\* first solution failed and has its issue, the file before it and the file
\* of the next solution have their mappings.
C16_Witness ==
    /\ apc.phase = "done"
    /\ ConnectorPath("SolA", 2) \in FailingFiles
    /\ Cardinality(IssuesOfFile(ConnectorPath("SolA", 2))) = 1
    /\ TablesMapped(ConnectorPath("SolA", 1)) # {}
    /\ TablesMapped(ConnectorPath("SolB", 1)) # {}

\* the solution directory of a connector file: Solutions/<name>
ScopeOf(filePath) ==
    LET parts == Split(filePath, "/") IN parts[1] \o "/" \o parts[2]

\* the catalog of a solution after loadParsers() has gone through all its
\* parser files
FullCatalog(solutionPath) ==
    LoadParsers(EmptyMap, repo.files, ParserFiles(repo.tree, solutionPath))

\* the step is a resolveMultipleParsers call of either loader
ResolverCalled == Len(analysed') = Len(analysed) + 1

Resolving == apc.phase \in {"resolving", "singleResolving"}
Loading == apc.phase \in {"parsers", "singleParsers"}

\* C17: in both loaders, every resolveMultipleParsers call is made when
\* loadParsers() has no parser file of the solution left to process, on the
\* catalog that holds the whole load of the connector's own solution; the
\* catalog changes only while loadParsers() runs, and no resolver call is
\* made then.
C17_LoadedBeforeResolved ==
    /\ [][ResolverCalled =>
            /\ Resolving
            /\ apc.parserFiles = <<>>
            /\ parserCache = FullCatalog(ScopeOf(Head(apc.connectorFiles)))]_vars
    /\ [](\A h \in 1..Len(analysed) :
            /\ analysed[h].pending = <<>>
            /\ analysed[h].catalog = FullCatalog(ScopeOf(analysed[h].filePath)))
    /\ [](Resolving => apc.parserFiles = <<>>)
    /\ [][parserCache' # parserCache => ~Resolving /\ ~ResolverCalled]_vars

\* C17 witness: one of the loaders has resolved a parser reference to a table
\* against a catalog that took more than one parser file to load.
C17_Witness ==
    /\ apc.phase \in {"done", "singleDone"}
    /\ \E h \in 1..Len(analysed) :
          /\ analysed[h].resolved # <<>>
          /\ Len(ParserFiles(repo.tree, ScopeOf(analysed[h].filePath))) >= 2
          /\ Cardinality(DOMAIN analysed[h].catalog) >= 2

\* What one analyze() run that has the SolutionLoader to itself leaves in the
\* accumulators `acc` after the connector file at `filePath`
ConnectorAlone(acc, solutionName, metadataName, catalog, filePath) ==
    LET content == ContentOf(repo.files, filePath)
        extracted == ExtractTablesFromConnector(content.doc)
        resolved == ResolveMultipleParsers(catalog, extracted.parserReferences)
        allTables == AllTables(extracted, resolved)
        connectorId == ConnectorId(content.doc)
        pushed == PushMappings([mappings |-> acc.mappings,
                                tableOccurrences |-> acc.tableOccurrences],
                               allTables, extracted,
                               [solution |-> metadataName,
                                connectorId |-> connectorId,
                                filePath |-> filePath])
    IN  IF content.kind # "doc" \/ ~Truthy(content.doc) \/ extracted.threw
        THEN [acc EXCEPT !.issues = RecordFailure(@, solutionName, filePath)]
        ELSE IF NoTableDefinitions(allTables, extracted)
        THEN [acc EXCEPT !.issues =
                Append(@, Issue(solutionName, connectorId,
                                "no_table_definitions", filePath))]
        ELSE [mappings |-> pushed.mappings,
              tableOccurrences |-> pushed.tableOccurrences,
              issues |-> IF ParserTablesOnly(allTables, extracted)
                         THEN Append(acc.issues,
                                 Issue(solutionName, connectorId,
                                       "parser_tables_only", filePath))
                         ELSE acc.issues]

RECURSIVE ConnectorsAlone(_, _, _, _, _)
ConnectorsAlone(acc, solutionName, metadataName, catalog, connectorFiles) ==
    IF connectorFiles = <<>> THEN acc
    ELSE ConnectorsAlone(
            ConnectorAlone(acc, solutionName, metadataName, catalog,
                           Head(connectorFiles)),
            solutionName, metadataName, catalog, Tail(connectorFiles))

\* ... and after the solution `solutionName`
SolutionAlone(acc, solutionName) ==
    LET solutionPath == "Solutions/" \o solutionName
        metadata == MetadataOf(repo.files, solutionPath, solutionName)
        withMetadata ==
            IF metadata.ok THEN acc
            ELSE [acc EXCEPT !.issues =
                    Append(@, Issue(solutionName, "", "missing_metadata",
                                    solutionPath \o "/SolutionMetadata.json"))]
    IN  ConnectorsAlone(withMetadata, solutionName, metadata.name,
                        FullCatalog(solutionPath),
                        ConnectorFiles(repo.tree, solutionPath))

RECURSIVE SolutionsAlone(_, _)
SolutionsAlone(acc, solutionNames) ==
    IF solutionNames = <<>> THEN acc
    ELSE SolutionsAlone(SolutionAlone(acc, Head(solutionNames)),
                        Tail(solutionNames))

\* What analyze() returns when no other run uses the SolutionLoader
AnalyzeAlone ==
    LET acc == SolutionsAlone([mappings |-> <<>>, issues |-> <<>>,
                               tableOccurrences |-> <<>>],
                              SolutionNames(repo.tree))
    IN  [mappings |-> CalculateTableUniqueness(acc.mappings, acc.tableOccurrences),
         issues |-> acc.issues]

\* A run of analyze() that is alone on its SolutionLoader returns AnalyzeAlone.
AloneReturnsAlone == apc.phase = "done" => apc.returned = AnalyzeAlone

\* C30: an analyze() run made after another has returned, on the same
\* SolutionLoader and repository, returns the mappings, issues and isUnique
\* flags the first returned: nothing of the first run is carried over.
C30_SecondRunAsFirst ==
    apc2.phase = "done" =>
        /\ apc.phase = "done"
        /\ apc2.returned = apc.returned
        /\ apc2.returned = AnalyzeAlone

\* C30 witness: both runs have returned, with a mapping flagged unique and
\* an issue in what the first returned.
C30_Witness ==
    /\ apc.phase = "done"
    /\ apc2.phase = "done"
    /\ apc.returned.issues # <<>>
    /\ \E i \in 1..Len(apc.returned.mappings) : apc.returned.mappings[i].isUnique

\* C19: each of two analyze() runs on one SolutionLoader, overlapping or not,
\* returns the mappings (with their uniqueness flags) and the issues that a
\* run alone on the repository returns.
C19_OverlapAsAlone ==
    /\ apc.phase = "done" => apc.returned = AnalyzeAlone
    /\ apc2.phase = "done" => apc2.returned = AnalyzeAlone

-----------------------------------------------------------------------------
(* Properties of the tool layer                                              *)

\* the step is a new analyze_solutions call
AnalyzeSolutionsCalled ==
    /\ Len(calls') = Len(calls) + 1
    /\ calls'[Len(calls')].tool = "analyze_solutions"

\* C22: an analyze_solutions call for the default repository without
\* force_refresh that finds a cached result is answered from that result and
\* starts no analysis; an analyze_solutions call starts an analysis only
\* with force_refresh, for a custom repository, or when nothing is cached.
C22_AnsweredFromCache ==
    [][AnalyzeSolutionsCalled =>
        LET call == calls'[Len(calls')]
        IN  /\ (call.args.defaultRepo /\ ~call.args.force_refresh
                    /\ cachedAnalysisResult # NoResult) =>
                  /\ call.phase = "done"
                  /\ call.answer = FormatAnalysisResult(cachedAnalysisResult,
                                                        call.args.format)
            /\ call.phase = "analyzing" =>
                  \/ call.args.force_refresh
                  \/ ~call.args.defaultRepo
                  \/ cachedAnalysisResult = NoResult]_vars

-----------------------------------------------------------------------------
(* Properties of the catalog load                                           *)

\* the parser files of the solution in load order, and the content of each
LoadOrder == ParserFiles(repo.tree, "Solutions/" \o apc.solutionName)

\* the positions of the load order that hold a file with a function name
\* and a query
UsablePositions ==
    {i \in 1..Len(LoadOrder) : repo.files[LoadOrder[i]] \in DOMAIN UsableParserFiles}

\* the entry the file at position i gives when it is the only file loaded
EntryAlone(i) ==
    ParseParserFile(EmptyMap, repo.files, LoadOrder[i])
        [UsableParserFiles[repo.files[LoadOrder[i]]]]

\* the step loads a file that is skipped
LoadsSkippedFile ==
    /\ apc.phase = "parsers"
    /\ apc.parserFiles # <<>>
    /\ repo.files[Head(apc.parserFiles)] \in SkippedParserFiles
    /\ apc' # apc

\* C15: a file whose fetch or parse fails, or that has no function name or
\* no query, leaves the catalog as it was and the load goes on with the
\* next file; when loadParsers has returned, every file of the scope was
\* processed and the catalog holds exactly the entries of the usable files,
\* each as the file gives it by itself, wherever the skipped files stood in
\* the load order.
C15_FailuresIsolated ==
    /\ [](apc.phase = "connectors" =>
            /\ apc.parserFiles = <<>>
            /\ DOMAIN parserCache =
                  {UsableParserFiles[repo.files[LoadOrder[i]]] : i \in UsablePositions}
            /\ \A i \in UsablePositions :
                  parserCache[UsableParserFiles[repo.files[LoadOrder[i]]]]
                      = EntryAlone(i))
    /\ [][LoadsSkippedFile =>
            /\ parserCache' = parserCache
            /\ apc'.parserFiles = Tail(apc.parserFiles)]_vars

\* C15 witness: the load has returned for a scope of three files, the
\* second of which throws; the files before and after it have their entries.
C15_Witness ==
    /\ apc.phase = "connectors"
    /\ Len(LoadOrder) = 3
    /\ ParserFileThrows(repo.files, LoadOrder[2])
    /\ UsablePositions = {1, 3}
    /\ Cardinality(DOMAIN parserCache) = 2

-----------------------------------------------------------------------------
(* Properties of the extractor                                              *)

\* The identifiers the scanner returns for the strings among `values`
ScannedNames(values, bindings) ==
    UNION {Range(ExtractTablesFromQuery(values[i], Variables(bindings))) :
              i \in {k \in 1..Len(values) : values[k].t = "str"}}

\* The detection methods of one array field, by ascending index, each with
\* the identifiers found under it
FieldDetections(doc, field, subfield, bindings) ==
    LET v == Get(doc, field)
    IN  IF v.t # "arr" THEN <<>>
        ELSE [i \in 1..Len(v.e) |->
                LET value == Get(v.e[i], subfield)
                IN  [method |-> MethodName(field, i - 1, subfield),
                     names |-> ScannedNames(
                                  IF value.t = "arr" /\ field = "connectivityCriterias"
                                  THEN value.e ELSE <<value>>, bindings)]]

\* The fixed evaluation order: graphQueries, sampleQueries, dataTypes,
\* connectivityCriterias (each by ascending index), then the
\* logAnalyticsTableId binding
EvaluationOrder(doc, bindings) ==
       FieldDetections(doc, "graphQueries", "baseQuery", bindings)
    \o FieldDetections(doc, "sampleQueries", "query", bindings)
    \o FieldDetections(doc, "dataTypes", "lastDataReceivedQuery", bindings)
    \o FieldDetections(doc, "connectivityCriterias", "value", bindings)
    \o << [method |-> "variables.logAnalyticsTableId",
           names |-> {Lookup(bindings, "logAnalyticsTableId")} \ {""}] >>

\* The tables the k-th method of the order detects
DetectedTables(order, k) == {n \in order[k].names : ~IsLikelyParser(n)}

\* C5: within one extractTablesFromConnector call every table name is
\* recorded once, under the method of its first detection in the fixed
\* evaluation order; every detected table is recorded.
C5_FirstDetectionWins ==
    (ephase = "extracted" /\ ~extraction.threw) =>
        LET tables == extraction.tables
            order == EvaluationOrder(connector, extraction.variables)
        IN  /\ \A i, j \in 1..Len(tables) :
                  tables[i][1] = tables[j][1] => i = j
            /\ \A i \in 1..Len(tables) :
                  \E k \in 1..Len(order) :
                      /\ order[k].method = tables[i][2]
                      /\ tables[i][1] \in DetectedTables(order, k)
                      /\ \A e \in 1..(k - 1) :
                            tables[i][1] \notin DetectedTables(order, e)
            /\ \A k \in 1..Len(order) :
                  \A n \in DetectedTables(order, k) : MapHas(tables, n)

\* C5 witness: a table detected by a graph query and again by a later
\* method has been recorded under the graph query.
C5_Witness ==
    /\ ephase = "extracted"
    /\ ~extraction.threw
    /\ LET order == EvaluationOrder(connector, extraction.variables)
       IN  \E k1, k2 \in 1..Len(order) :
              /\ k1 < k2
              /\ \E n \in DetectedTables(order, k1) \cap DetectedTables(order, k2) :
                    /\ MapGet(extraction.tables, n) = order[k1].method
                    /\ order[k1].method = "graphQueries.1.baseQuery"
                    /\ order[k2].method = "variables.logAnalyticsTableId"

\* The `variables` objects of a document in the order of a depth-first walk
\* that looks at a node before its children, and at the children in the
\* order of the document
RECURSIVE VariablesInWalk(_)
RECURSIVE VariablesBelow(_)
VariablesInWalk(v) ==
    IF ~IsObject(v) THEN <<>>
    ELSE (IF Truthy(Get(v, "variables")) /\ IsObject(Get(v, "variables"))
          THEN <<Get(v, "variables")>> ELSE <<>>)
         \o VariablesBelow(EntriesOf(v))

VariablesBelow(entries) ==
    IF entries = <<>> THEN <<>>
    ELSE VariablesInWalk(Head(entries)[2]) \o VariablesBelow(Tail(entries))

\* The string-valued entries of those objects, in the order of the walk
RECURSIVE StringEntries(_)
StringEntries(objects) ==
    IF objects = <<>> THEN <<>>
    ELSE SelectSeq(EntriesOf(Head(objects)), LAMBDA e : e[2].t = "str")
         \o StringEntries(Tail(objects))

\* the value of the last entry for `key`
LastValue(entries, key) ==
    entries[CHOOSE i \in DOMAIN entries :
                /\ entries[i][1] = key
                /\ \A j \in DOMAIN entries : entries[j][1] = key => j <= i][2].s

\* C26: the bindings of an extraction are the string-valued entries of all
\* the `variables` objects met by the depth-first walk of the document; a
\* key is bound once, to the value of its last entry in the walk.
C26_LastOccurrenceBinds ==
    ephase = "extracted" =>
        LET entries == StringEntries(VariablesInWalk(connector))
            bound == extraction.variables
        IN  /\ {bound[i][1] : i \in DOMAIN bound}
                  = {entries[i][1] : i \in DOMAIN entries}
            /\ \A i, j \in DOMAIN bound : bound[i][1] = bound[j][1] => i = j
            /\ \A i \in DOMAIN bound :
                  bound[i][2] = LastValue(entries, bound[i][1])

\* C26 witness: three `variables` objects at different depths bind the same
\* key; the binding is the value of the one walked last, which is neither
\* the first nor the deepest; an entry that is no string is not bound.
C26_Witness ==
    /\ ephase = "extracted"
    /\ Len(VariablesInWalk(connector)) = 3
    /\ Lookup(extraction.variables, "logAnalyticsTableId") = "Last_CL"
    /\ Lookup(extraction.variables, "workspace") = "ws"
    /\ Lookup(extraction.variables, "retention") = ""
    /\ \E e \in Range(EntriesOf(VariablesInWalk(connector)[1])) :
          e[1] = "retention"

TableNames == MapKeys(extraction.tables)
CustomLogTables == {n \in Range(TableNames) : EndsWith(n, "_CL")}
AsimTables ==
    {n \in Range(TableNames) : StartsWith(n, "ASIM") \/ StartsWith(n, "Asim")}

\* C21: resolveTablePriority returns null for no tables, else a _CL table
\* if there is one, else an ASIM / Asim table if there is one, else the first
\* table; and the call leaves the tables as they were.
C21_PriorityOrder ==
    /\ [](ephase = "prioritized" =>
            /\ TableNames = <<>> => priority = JNull
            /\ CustomLogTables # {} => priority \in {JStr(n) : n \in CustomLogTables}
            /\ CustomLogTables = {} /\ AsimTables # {} =>
                    priority \in {JStr(n) : n \in AsimTables}
            /\ CustomLogTables = {} /\ AsimTables = {} /\ TableNames # <<>> =>
                    priority = JStr(TableNames[1]))
    /\ [][ephase = "extracted" /\ ephase' = "prioritized" =>
                extraction' = extraction]_vars

\* C21 witness: the call returned a _CL table that was not the first table,
\* ahead of an ASIM table recorded before it.
C21_Witness ==
    /\ ephase = "prioritized"
    /\ Len(TableNames) >= 3
    /\ TableNames[1] \in AsimTables
    /\ TableNames[2] \notin CustomLogTables \cup AsimTables
    /\ priority = JStr(TableNames[3])
    /\ TableNames[3] \in CustomLogTables

-----------------------------------------------------------------------------
(* Properties of the resolver                                               *)

\* The step machine and resolveParser as a function return the same set
\* and leave the same visited set.
ResolverAgrees ==
    rstatus = "done" =>
        /\ rresult = ResolveParser(parserCache, startName, {}, 0).tables
        /\ visited = ResolveParser(parserCache, startName, {}, 0).visited

\* The names a parser references (none for a name the catalog lacks)
RefsOf(cache, p) ==
    IF p \in DOMAIN cache THEN Range(cache[p].parserReferences) ELSE {}

\* The names within k references of `from`
RECURSIVE Within(_, _, _)
Within(cache, from, k) ==
    IF k = 0 THEN {from}
    ELSE LET near == Within(cache, from, k - 1)
         IN  near \cup UNION {RefsOf(cache, p) : p \in near}

\* Every name reachable from `from`: no shortest path is longer than the
\* number of catalog entries.
Reachable(cache, from) == Within(cache, from, Cardinality(DOMAIN cache))

\* The direct tables of the catalog parsers among `names`
DirectTables(cache, names) ==
    UNION {Range(cache[p].tables) : p \in names \cap DOMAIN cache}

ExpansionsOf(p) == {i \in 1..Len(expansions) : expansions[i].name = p}

\* C1: for every catalog (self-references, direct and indirect cycles
\* included) and every start name, resolveParser terminates: the top-level
\* call returns, and no call throws.
C1_Terminates == <>(rstatus = "done") /\ [](rstatus # "error")

\* C1 witness: a call has returned although the resolution ran into a parser
\* it had already visited (a cycle was absorbed).
C1_Witness ==
    /\ rstatus = "done"
    /\ \E i \in 1..Len(cutoffs) : cutoffs[i].why = "visited"
    /\ startName \in UNION {RefsOf(parserCache, p) : p \in Reachable(parserCache, startName)}

\* A linear chain from the start name: every parser reachable from it has
\* at most one reference, and none of them is reachable from itself.
LinearChain(cache, from) ==
    \A p \in Reachable(cache, from) :
        /\ Cardinality(RefsOf(cache, p)) <= 1
        /\ \A r \in RefsOf(cache, p) : p \notin Reachable(cache, r)

\* C2: a parser is expanded only at depth <= MAX_RESOLUTION_DEPTH, at most
\* MAX_RESOLUTION_DEPTH + 1 expanded calls are nested in one another, and on
\* a linear chain the result holds the tables of the parsers within 5 hops
\* of the start and of no parser further away.
C2_DepthBound ==
    /\ \A i \in 1..Len(expansions) : expansions[i].depth <= MAX_RESOLUTION_DEPTH
    /\ Cardinality({i \in 1..Len(rstack) : rstack[i].pc = "loop"})
          <= MAX_RESOLUTION_DEPTH + 1
    /\ (rstatus = "done" /\ LinearChain(parserCache, startName)) =>
          /\ Range(rresult) =
                DirectTables(parserCache,
                             Within(parserCache, startName, MAX_RESOLUTION_DEPTH))
          /\ \A p \in DOMAIN parserCache :
                p \notin Within(parserCache, startName, MAX_RESOLUTION_DEPTH)
                    => TableOf(p) \notin Range(rresult)

\* C2 witness: a resolution over a linear chain has returned, and the chain
\* holds a parser more than 5 hops from the start, which the depth guard cut.
C2_Witness ==
    /\ rstatus = "done"
    /\ LinearChain(parserCache, startName)
    /\ \E p \in DOMAIN parserCache :
          /\ p \in Reachable(parserCache, startName)
          /\ p \notin Within(parserCache, startName, MAX_RESOLUTION_DEPTH)
    /\ \E i \in 1..Len(cutoffs) : cutoffs[i].why = "depth"

\* The start name lies on a reference cycle and nothing else is reachable
\* from it: every reachable name is a catalog parser with exactly one
\* reference, and the start is reachable from its own reference.
OnSimpleCycle(cache, from) ==
    /\ \A p \in Reachable(cache, from) :
          p \in DOMAIN cache /\ Len(cache[p].parserReferences) = 1
    /\ \E r \in RefsOf(cache, from) : from \in Reachable(cache, r)

\* C3: for a start parser on a reference cycle no longer than the depth
\* bound (A references B, B references A is the cycle of length 2), every
\* parser of the cycle is expanded exactly once and the result is the union
\* of their direct tables.
C3_CycleResult ==
    (/\ rstatus = "done"
     /\ OnSimpleCycle(parserCache, startName)
     /\ Cardinality(Reachable(parserCache, startName)) <= MAX_RESOLUTION_DEPTH)
    =>
    /\ \A p \in Reachable(parserCache, startName) :
          Cardinality(ExpansionsOf(p)) = 1
    /\ Range(rresult) =
          DirectTables(parserCache, Reachable(parserCache, startName))

\* C3 witness: resolveParser(A) has returned for a catalog in which A
\* references only B and B references only A.
C3_Witness ==
    /\ rstatus = "done"
    /\ OnSimpleCycle(parserCache, startName)
    /\ Cardinality(Reachable(parserCache, startName)) = 2
    /\ Cardinality(Range(rresult)) = 2


\* The catalog with every reference to a name it does not define removed
\* from the parsers' reference lists
RECURSIVE KnownOnly(_, _)
KnownOnly(cache, refs) ==
    IF refs = <<>> THEN <<>>
    ELSE (IF Head(refs) \in DOMAIN cache THEN <<Head(refs)>> ELSE <<>>)
         \o KnownOnly(cache, Tail(refs))

WithoutUnknown(cache) ==
    [p \in DOMAIN cache |->
        ParserInfo(cache[p].name, cache[p].tables,
                   KnownOnly(cache, cache[p].parserReferences))]

\* C13: no resolution ends in an error; resolving a name the catalog does
\* not define returns the empty set; a defined start parser contributes its
\* own tables, and the call returns what it returns for the catalog without
\* the references to undefined names: such a reference adds nothing and
\* takes nothing away from the references around it.
C13_UnknownIsEmpty ==
    /\ rstatus # "error"
    /\ rstatus = "done" =>
          /\ startName \notin DOMAIN parserCache => rresult = <<>>
          /\ startName \in DOMAIN parserCache =>
                Range(parserCache[startName].tables) \subseteq Range(rresult)
          /\ rresult = ResolveParser(WithoutUnknown(parserCache),
                                     startName, {}, 0).tables

\* C13 witness: the call has returned for a start parser whose first
\* reference is undefined and whose second reference is a catalog parser;
\* the undefined name was looked up, and the result holds the tables of the
\* start parser and of the second reference.
C13_Witness ==
    /\ rstatus = "done"
    /\ startName \in DOMAIN parserCache
    /\ LET refs == parserCache[startName].parserReferences
       IN  /\ Len(refs) = 2
           /\ refs[1] \notin DOMAIN parserCache
           /\ refs[2] \in DOMAIN parserCache
           /\ \E i \in 1..Len(cutoffs) :
                 cutoffs[i].name = refs[1] /\ cutoffs[i].why = "unknown"
           /\ {TableOf(startName), TableOf(refs[2])} \subseteq Range(rresult)


\* The names within MAX_RESOLUTION_DEPTH parser references of the start name
WithinBound == Within(parserCache, startName, MAX_RESOLUTION_DEPTH)

\* C28 as claimed: the returned set holds the direct tables of every parser
\* of the catalog whose shortest reference distance from the start name is
\* at most MAX_RESOLUTION_DEPTH, whatever the order of the references.
C28_CompleteWithinBound ==
    rstatus = "done" =>
        \A p \in WithinBound \cap DOMAIN parserCache :
            Range(parserCache[p].tables) \subseteq Range(rresult)

\* C29: every returned name is a direct table of a parser of the catalog
\* that is within MAX_RESOLUTION_DEPTH parser references of the start name;
\* a name that is only a parser reference, or only a table of a parser out
\* of reach, is not returned (each returned name is an entry of the tables
\* list of such a parser, never an entry of a parserReferences list).
C29_OnlyReachableTables ==
    rstatus = "done" =>
        /\ \A i \in 1..Len(rresult) :
              \E p \in WithinBound \cap DOMAIN parserCache :
                  \E j \in 1..Len(parserCache[p].tables) :
                      rresult[i] = parserCache[p].tables[j]
        /\ \A p \in DOMAIN parserCache \ WithinBound :
              Range(parserCache[p].tables) \cap Range(rresult) = {}

\* C29 witness: a call has returned the tables of nested parsers, the
\* catalog holds a parser more than MAX_RESOLUTION_DEPTH references from the
\* start name, and the start name is itself referenced by a parser.
C29_Witness ==
    /\ rstatus = "done"
    /\ Cardinality(Range(rresult)) >= 3
    /\ DOMAIN parserCache \ WithinBound # {}
    /\ \E p \in DOMAIN parserCache : startName \in RefsOf(parserCache, p)

-----------------------------------------------------------------------------
(* Properties of resolveMultipleParsers and of calls side by side           *)

\* the names in the opposite order
Reversed(names) == [i \in 1..Len(names) |-> names[Len(names) + 1 - i]]

\* the tables resolveParser(n) returns, for every n of `names` by itself
ResolvedOneByOne(cache, names) ==
    UNION {Range(ResolveParser(cache, n, {}, 0).tables) : n \in Range(names)}

NoDuplicates(s) == \A i, j \in 1..Len(s) : s[i] = s[j] => i = j

\* C14: a resolveMultipleParsers call that has returned holds exactly the
\* tables that resolveParser returns for its names one by one, each from
\* depth 0 with a visited set of its own, and holds none twice; it is what
\* the function ResolveMultipleParsers gives, and as a set it is the same
\* for the names in the opposite order.
C14_UnionOfResolutions ==
    \A t \in DOMAIN tasks :
        tasks[t].phase = "done" =>
            /\ Range(tasks[t].result)
                  = ResolvedOneByOne(parserCache, tasks[t].parserNames)
            /\ NoDuplicates(tasks[t].result)
            /\ tasks[t].result
                  = ResolveMultipleParsers(parserCache, tasks[t].parserNames)
            /\ Range(tasks[t].result)
                  = Range(ResolveMultipleParsers(parserCache,
                                                 Reversed(tasks[t].parserNames)))

\* C14 witness: a call with two start names has returned; the second name
\* was visited while the first was resolved, each name contributes a table
\* the other does not reach, and they share a table.
C14_Witness ==
    \E t \in DOMAIN tasks :
        /\ tasks[t].phase = "done"
        /\ Len(tasks[t].parserNames) = 2
        /\ LET first == ResolveParser(parserCache, tasks[t].parserNames[1], {}, 0)
               second == ResolveParser(parserCache, tasks[t].parserNames[2], {}, 0)
           IN  /\ tasks[t].parserNames[2] \in first.visited
               /\ Range(first.tables) \ Range(second.tables) # {}
               /\ Range(second.tables) \ Range(first.tables) # {}
               /\ Range(first.tables) \cap Range(second.tables) # {}
               /\ Range(tasks[t].result)
                     = Range(first.tables) \cup Range(second.tables)

\* C18: whatever the interleaving, a call that has returned holds what the
\* same call returns by itself, and no step of a call changes the catalog.
C18_NoInterference ==
    /\ [](\A t \in DOMAIN tasks :
            tasks[t].phase = "done" =>
                tasks[t].result
                    = ResolveMultipleParsers(parserCache, tasks[t].parserNames))
    /\ [][parserCache' = parserCache]_vars

\* C18 witness: two calls have returned that ran side by side (a top-level
\* resolveParser call of each began while one of the other was suspended)
\* and visited the same parsers; both hold tables.
C18_Witness ==
    /\ Len(tasks) = 2
    /\ \A t \in DOMAIN tasks :
          /\ tasks[t].phase = "done"
          /\ tasks[t].beside
          /\ tasks[t].result # <<>>
    /\ Range(tasks[1].result) \cap Range(tasks[2].result) # {}

\* the tables of a finished run, in order, each with its detection method
TablesAndMethods(task) ==
    LET allTables == AllTables(task.extraction, task.result)
    IN  [i \in 1..Len(allTables) |->
            <<allTables[i], DetectionMethod(task.extraction, allTables[i])>>]

Finished(task) == task.phase \in {"done", "failed"}

\* C20: two runs of extraction and resolution over one connector document
\* and one catalog end alike, and when both have resolved they hold the same
\* tables with the same detection methods, in the same order; a finished
\* run is not changed by a step of the other, and no step changes the
\* catalog.
C20_TwiceTheSame ==
    /\ [](Finished(tasks[1]) /\ Finished(tasks[2]) =>
            /\ tasks[1].phase = tasks[2].phase
            /\ tasks[1].phase = "done" =>
                  /\ MapKeys(tasks[1].extraction.tables)
                        = MapKeys(tasks[2].extraction.tables)
                  /\ tasks[1].result = tasks[2].result
                  /\ TablesAndMethods(tasks[1]) = TablesAndMethods(tasks[2]))
    /\ [][\A t \in DOMAIN tasks : Finished(tasks[t]) => tasks'[t] = tasks[t]]_vars
    /\ [][parserCache' = parserCache]_vars

\* C20 witness: both runs are over, the second began to resolve while the
\* first was suspended in the resolver, and both hold a table detected in
\* the document and a table that came from the catalog.
C20_Witness ==
    /\ \A t \in DOMAIN tasks :
          /\ tasks[t].phase = "done"
          /\ tasks[t].doc # JNull
          /\ \E i, j \in DOMAIN TablesAndMethods(tasks[t]) :
                /\ TablesAndMethods(tasks[t])[i][2] = "parser_resolution"
                /\ TablesAndMethods(tasks[t])[j][2] # "parser_resolution"
    /\ tasks[2].beside

\* C27: no step of a resolveParser or resolveMultipleParsers call changes
\* the catalog: it keeps its entries, and every entry its tables and its
\* parser references.
C27_CatalogReadOnly ==
    [][/\ DOMAIN parserCache' = DOMAIN parserCache
       /\ \A n \in DOMAIN parserCache :
             /\ parserCache'[n].tables = parserCache[n].tables
             /\ parserCache'[n].parserReferences
                   = parserCache[n].parserReferences]_vars

\* C27 witness: a resolveMultipleParsers call has returned more tables than
\* the catalog entry of its one start name holds, so tables of nested
\* parsers were added on the way.
C27_Witness ==
    /\ Len(tasks) = 1
    /\ tasks[1].phase = "done"
    /\ Len(tasks[1].parserNames) = 1
    /\ tasks[1].parserNames[1] \in DOMAIN parserCache
    /\ Range(tasks[1].result)
          \ Range(parserCache[tasks[1].parserNames[1]].tables) # {}

-----------------------------------------------------------------------------
(* Properties of the classifiers                                            *)

\* The five table rules, in the order section 4.2 of the specification
\* gives them.
Rule1_CustomLog(name) == EndsWith(name, "_CL")
Rule2_AllowList(name) == name \in STANDARD_TABLES
Rule3_Underscore(name) == Includes(name, "_")
Rule4_Suffix(name) ==
    \E x \in {"Logs", "Events", "Users", "Traffic", "Alerts", "Data"} :
        EndsWith(name, x)
Rule5_Prefix(name) ==
    \E x \in {"AAD", "ADFS", "Azure", "AWS", "Office365", "Network"} :
        StartsWith(name, x)

FirstMatchingRule(name) ==
    IF Rule1_CustomLog(name) THEN "table"
    ELSE IF Rule2_AllowList(name) THEN "table"
    ELSE IF Rule3_Underscore(name) THEN "table"
    ELSE IF Rule4_Suffix(name) THEN "table"
    ELSE IF Rule5_Prefix(name) THEN "table"
    ELSE "parser"

\* C7: the extractor's classifier returns the verdict of the first matching
\* rule of the priority list (_CL suffix, allow-list, underscore, table
\* suffix, vendor prefix, otherwise parser): an identifier is a parser
\* reference iff none of the five table rules matches it.
C7_ClassifyByRules ==
    cphase = "classified" =>
        /\ verdict.extractor = (FirstMatchingRule(cname) = "parser")
        /\ verdict.extractor =
              ~(\/ Rule1_CustomLog(cname) \/ Rule2_AllowList(cname)
                \/ Rule3_Underscore(cname) \/ Rule4_Suffix(cname)
                \/ Rule5_Prefix(cname))

\* C7 witness: an identifier that only the suffix rule makes a table has
\* been classified as a table.
C7_Witness ==
    /\ cphase = "classified"
    /\ Rule4_Suffix(cname)
    /\ ~Rule1_CustomLog(cname) /\ ~Rule2_AllowList(cname)
    /\ ~Rule3_Underscore(cname) /\ ~Rule5_Prefix(cname)
    /\ verdict.extractor = FALSE

\* C8 as claimed: the catalog's classifier and the extractor's classifier
\* give the same table / parser-reference verdict for every identifier.
C8_ClassifiersAgree ==
    cphase = "classified" => verdict.catalog = verdict.extractor

-----------------------------------------------------------------------------
(* Properties of the scanner                                                *)

\* The text before the first pipe character (all of it when there is none)
TextBeforeFirstPipe(s) ==
    LET bar == IndexOf(s, "|")
    IN  IF bar = 0 THEN s ELSE SubSeq(s, 1, bar - 1)

\* What a token may be returned as: itself, or its plural correction
ReturnedForms(token) ==
    {token, Lookup(PLURAL_TABLE_CORRECTIONS, ToLowerCase(token))}

HeadTokens(q) == ExtractTokens(TextBeforeFirstPipe(RemoveLineComments(q)))

\* C9: the scanned set is the scan of the comment-stripped text before the
\* first pipe and of nothing else: every returned identifier comes from a
\* token of that head, the example query yields exactly {SecurityEvent}, and
\* a query without a pipe is scanned over its whole text.
C9_OnlyPipelineHead ==
    sphase = "scanned" =>
        /\ scanned = ScanTokens(<<>>, SetAddAll(<<>>, HeadTokens(query)),
                                ScanBindings)
        /\ \A r \in Range(scanned) :
              \E t \in Range(HeadTokens(query)) : r \in ReturnedForms(t)
        /\ (query = "SecurityEvent | where Computer == 'X' | project Computer"
              => scanned = <<"SecurityEvent">>)
        /\ (~Includes(query, "|") =>
              scanned = ScanTokens(<<>>,
                            SetAddAll(<<>>, ExtractTokens(RemoveLineComments(query))),
                            ScanBindings))

\* C9 witness: a query was scanned whose text after the first pipe holds an
\* identifier the scanner would accept, and that identifier was not returned.
C9_Witness ==
    /\ sphase = "scanned"
    /\ scanned # <<>>
    /\ \E t \in Range(DetectPipelineHeads_AllSegments(RemoveLineComments(query))) :
          /\ IsValidTableToken(t)
          /\ ToLowerCase(t) \notin NON_TABLE_TOKENS
          /\ t \notin Range(HeadTokens(query))
          /\ t \notin Range(scanned)

\* Whether the // at index i of the line is the one of http:// or https://
PartOfUrl(line, i) ==
    \/ StartsWithAt(line, i - Len("http:"), "http://")
    \/ StartsWithAt(line, i - Len("https:"), "https://")

\* The line with its comment removed as the documentation describes it: cut
\* at the first // that is not part of a URL.
DocumentedStripLine(line) ==
    LET markers == {i \in 1..Len(line) :
                       StartsWithAt(line, i, "//") /\ ~PartOfUrl(line, i)}
    IN  IF markers = {} THEN line
        ELSE SubSeq(line, 1, MinOf(markers) - 1)

DocumentedStrip(q) ==
    LET lines == Split(q, "\n")
    IN  Join([i \in 1..Len(lines) |-> DocumentedStripLine(lines[i])], "\n")

\* C10 as claimed: on every line the text from a // comment marker to the
\* end of the line is removed unless the // is part of an http:// or
\* https:// URL, so no returned identifier comes from inside a comment, and
\* no URL is truncated.
C10_CommentsStripped ==
    sphase = "scanned" =>
        /\ RemoveLineComments(query) = DocumentedStrip(query)
        /\ \A r \in Range(scanned) :
              \E t \in Range(ExtractTokens(DocumentedStrip(query))) :
                  r \in ReturnedForms(t)

\* The query is one ARM reference, [variables('k')]; ArmKey is its k
IsArmReference(q) == ArmMatches(q) = <<q>>
ArmKey(q) == SubSeq(q, Len("[variables('") + 1, Len(q) - Len("')]"))

\* C23 as claimed: for a head [variables('k')] the scanned set holds the
\* value the bindings give k and, when k is unbound, nothing; neither the
\* word variables nor k is returned.
C23_ArmResolved ==
    sphase = "scanned" /\ IsArmReference(query) =>
        /\ Lookup(ScanBindings.map, ArmKey(query)) # "" =>
                Lookup(ScanBindings.map, ArmKey(query)) \in Range(scanned)
        /\ Lookup(ScanBindings.map, ArmKey(query)) = "" => scanned = <<>>
        /\ "variables" \notin Range(scanned)
        /\ ArmKey(query) \notin Range(scanned)

\* C24 as claimed: when the head is a let assignment, the name it binds (the
\* token after let) is not returned.
C24_LetNameDropped ==
    sphase = "scanned" /\ LetAssignmentMatches(query) =>
        HeadTokens(query)[2] \notin Range(scanned)

\* C25: every identifier the scanner returns starts with a letter, holds
\* only letters, digits and underscores, has two characters or more, and is
\* no reserved keyword in any letter case.
C25_ReturnedAreNames ==
    sphase = "scanned" =>
        \A r \in Range(scanned) :
            /\ Len(r) >= 2
            /\ CharAt(r, 1) \in LetterSet
            /\ \A i \in 1..Len(r) : CharAt(r, i) \in WordCharSet
            /\ ToLowerCase(r) \notin NON_TABLE_TOKENS

\* C25 witness: the head held a keyword, a token of one letter and a token
\* with a dot, none of them returned, and a name that was returned.
C25_Witness ==
    /\ sphase = "scanned"
    /\ scanned # <<>>
    /\ \E k, s, d \in Range(HeadTokens(query)) :
          /\ ToLowerCase(k) \in NON_TABLE_TOKENS
          /\ Len(s) = 1 /\ CharAt(s, 1) \in LetterSet
          /\ Includes(d, ".")
          /\ {k, s, d} \cap Range(scanned) = {}

====
